---------------------------- MODULE Spec2Model ----------------------------
(***************************************************************************)
(* WokeLang: the capability registry (security/mod.rs) and the execution   *)
(* stack (tree-walking interpreter, bytecode compiler, optimizer, VM).     *)
(*                                                                         *)
(* Four specifications share the module.  SpecRegistry drives the          *)
(* capability registry through grant / grant_temporary / revoke / request  *)
(* while a clock advances.  SpecExec takes one source program through the  *)
(* interpreter, the compiler, the VM on the raw bytecode, the optimizer    *)
(* and the VM on the optimized bytecode.  SpecConsent drives a             *)
(* ConsentStore (security/consent.rs) and its file through sessions.       *)
(* SpecChannel runs tasks that share the clones of one ChannelHandle       *)
(* (interpreter/value.rs, stdlib/chan.rs).                                 *)
(***************************************************************************)
EXTENDS Integers, Sequences, FiniteSets, TLC

VARIABLES
    \* ---- CapabilityRegistry (security/mod.rs:177-188)
    capabilities,     \* scope -> sequence of GrantedCapability
    audit_log,        \* sequence of AuditEntry
    interactive,      \* allow interactive consent prompts
    default_consent,  \* decision in non-interactive mode
    now,              \* SystemTime::now(), in clock ticks
    last_op,          \* the registry operation that ran last, with its outcome
    op_count,         \* number of grant/revoke/request operations so far
    \* ---- execution stack
    source,           \* the source program is Program(source) (0: none)
    overflow_checks,  \* the build panics on integer overflow (debug profile)
    stdin,            \* lines the user will type at consent prompts
    phase,            \* position in the pipeline
    interp,           \* outcome of Interpreter::run on the source program
    program,          \* CompiledProgram loaded in the VM
    vm,               \* VirtualMachine: stack, call_stack, globals, status
    raw,              \* outcome of the VM run on the unoptimized bytecode
    \* ---- ConsentStore (security/consent.rs:63-70) and its file
    consents,         \* key "scope:capability" -> StoredConsent
    file,             \* lines of the consent file (NoFile: it does not exist)
    clock,            \* SystemTime::now() in seconds since the epoch
    answer,           \* the ConsentStore::check that ran last, with its answer
    store_ops,        \* number of ConsentStore::store calls so far
    \* ---- ChannelHandle (interpreter/value.rs:52-63) and the tasks using it
    capacity,         \* the capacity the channel was made with
    queue,            \* values in the mpsc channel, oldest first
    closed,           \* the closed flag shared by every clone
    receiver,         \* task holding the receiver mutex (0: nobody)
    tasks,            \* task -> the stdlib call the task is inside
    sent,             \* values handed to the mpsc sender, in that order
    received,         \* values taken from the mpsc receiver, in that order
    returned          \* the stdlib call that returned last, with its value

reg_vars == <<capabilities, audit_log, interactive, default_consent, now,
              last_op, op_count>>

exec_vars == <<source, overflow_checks, stdin, phase, interp, program, vm, raw>>

store_vars == <<consents, file, clock, answer, store_ops>>

chan_vars == <<capacity, queue, closed, receiver, tasks, sent, received,
               returned>>

vars == <<capabilities, audit_log, interactive, default_consent, now,
          last_op, op_count,
          source, overflow_checks, stdin, phase, interp, program, vm, raw,
          consents, file, clock, answer, store_ops,
          capacity, queue, closed, receiver, tasks, sent, received, returned>>

(***************************************************************************)
(* Bounds of the registry model.                                           *)
(***************************************************************************)
MaxOps == 2        \* grant/revoke/request operations in one behaviour
MaxTime == 1       \* clock ticks

\* durations handed to grant_temporary (test_capability_expiry uses 0)
Durations == {0}

(***************************************************************************)
(* Capabilities.  param = "None" is Option::None, "-" marks a variant      *)
(* without a parameter, anything else is Some(param).                      *)
(***************************************************************************)
NoneParam == "None"

Cap(kind, param) == [kind |-> kind, param |-> param]

Capabilities ==
    { Cap("Network", NoneParam), Cap("Network", "a"),
      Cap("FileRead", "a") }

\* capabilities asked about: the granted ones, plus a parameter no grant names,
\* a variant without a parameter and a wildcard nobody holds
QueryCaps ==
    Capabilities \cup { Cap("Network", "b"), Cap("Crypto", "-"),
                        Cap("FileRead", NoneParam) }

GlobalScope == "*"

OpScopes == {"main", GlobalScope}

Scopes == {"main", "aux", GlobalScope}

NoExpiry == -1

\* GrantedCapability::new
GrantedCapability_new(capability, granted_by, t) ==
    [capability |-> capability, granted_at |-> t, expires_at |-> NoExpiry,
     granted_by |-> granted_by, revoked |-> FALSE]

\* GrantedCapability::with_expiry
with_expiry(g, duration, t) == [g EXCEPT !.expires_at = t + duration]

\* GrantedCapability::is_valid at clock value t
is_valid(g, t) ==
    IF g.revoked THEN FALSE
    ELSE IF g.expires_at # NoExpiry /\ t > g.expires_at THEN FALSE
    ELSE TRUE

capability_matches_exact_only(granted, requested) == granted = requested

\* CapabilityRegistry::capability_matches
capability_matches(granted, requested) ==
    CASE granted.kind = "FileRead" /\ granted.param = NoneParam
             /\ requested.kind = "FileRead" -> TRUE
      [] granted.kind = "FileWrite" /\ granted.param = NoneParam
             /\ requested.kind = "FileWrite" -> TRUE
      [] granted.kind = "Execute" /\ granted.param = NoneParam
             /\ requested.kind = "Execute" -> TRUE
      [] granted.kind = "Network" /\ granted.param = NoneParam
             /\ requested.kind = "Network" -> TRUE
      [] granted.kind = "Environment" /\ granted.param = NoneParam
             /\ requested.kind = "Environment" -> TRUE
      [] OTHER -> granted = requested

\* CapabilityRegistry::has_capability over an explicit registry and clock
HasCap(caps, t, scope, capability) ==
    \/ \E i \in 1..Len(caps[scope]) :
          \/ caps[scope][i].capability = capability /\ is_valid(caps[scope][i], t)
          \/ capability_matches(caps[scope][i].capability, capability)
                /\ is_valid(caps[scope][i], t)
    \/ \E i \in 1..Len(caps[GlobalScope]) :
          capability_matches(caps[GlobalScope][i].capability, capability)
             /\ is_valid(caps[GlobalScope][i], t)

has_capability(scope, capability) == HasCap(capabilities, now, scope, capability)

audit_drop(log, capability, action, context, success, t) == log

\* CapabilityRegistry::audit
audit(log, capability, action, context, success, t) ==
    Append(log, [timestamp |-> t, capability |-> capability, action |-> action,
                 context |-> context, success |-> success])

\* the push of CapabilityRegistry::grant / grant_temporary
push_grant(caps, scope, entry) ==
    [caps EXCEPT ![scope] = Append(@, entry)]

\* the marking loop of CapabilityRegistry::revoke
revoke_marks(caps, scope, capability) ==
    [caps EXCEPT ![scope] =
        [i \in 1..Len(@) |->
            IF @[i].capability = capability
            THEN [@[i] EXCEPT !.revoked = TRUE]
            ELSE @[i]]]

retain_valid_drops_temporary(caps, t) ==
    [s \in DOMAIN caps |->
        SelectSeq(caps[s], LAMBDA g : is_valid(g, t) /\ g.expires_at = NoExpiry)]

\* the retain of CapabilityRegistry::cleanup_expired
retain_valid(caps, t) ==
    [s \in DOMAIN caps |->
        SelectSeq(caps[s], LAMBDA g : is_valid(g, t))]

\* the answer typed at the consent prompt, trimmed and lower-cased;
\* "READ_ERR" stands for read_line failing
StdinLines == {"y", " YES ", "n", "READ_ERR"}

trim_lower(line) ==
    CASE line = " YES " -> "yes"
      [] OTHER -> line

accepts(line) ==
    line # "READ_ERR" /\ (trim_lower(line) = "y" \/ trim_lower(line) = "yes")

NoOp == [op |-> "none", scope |-> "", capability |-> Cap("", ""), ok |-> TRUE,
         err |-> ""]

\* the execution stack is not started while the registry is exercised
ExecIdle ==
    /\ source = 0
    /\ overflow_checks = FALSE
    /\ stdin = <<>>
    /\ phase = "idle"
    /\ interp = <<>>
    /\ program = <<>>
    /\ vm = <<>>
    /\ raw = <<>>

\* no consent store is open while another part is exercised
StoreIdle ==
    /\ consents = <<>>
    /\ file = <<>>
    /\ clock = 0
    /\ answer = <<>>
    /\ store_ops = 0

\* no channel is made while another part is exercised
ChanIdle ==
    /\ capacity = 0
    /\ queue = <<>>
    /\ closed = FALSE
    /\ receiver = 0
    /\ tasks = <<>>
    /\ sent = <<>>
    /\ received = <<>>
    /\ returned = <<>>

RegInit ==
    /\ ExecIdle
    /\ StoreIdle
    /\ ChanIdle
    /\ capabilities = [s \in Scopes |-> <<>>]
    /\ audit_log = <<>>
    \* CapabilityRegistry::new() or CapabilityRegistry::permissive()
    /\ \/ interactive = TRUE /\ default_consent = FALSE
       \/ interactive = FALSE /\ default_consent = TRUE
    /\ now = 0
    /\ last_op = NoOp
    /\ op_count = 0

\* CapabilityRegistry::grant
grant(scope, capability, granted_by) ==
    /\ op_count < MaxOps
    /\ capabilities' = push_grant(capabilities, scope,
                          GrantedCapability_new(capability, granted_by, now))
    /\ audit_log' = audit(audit_log, capability, "Granted", scope, TRUE, now)
    /\ last_op' = [op |-> "grant", scope |-> scope, capability |-> capability,
                   ok |-> TRUE, err |-> ""]
    /\ op_count' = op_count + 1
    /\ UNCHANGED <<interactive, default_consent, now>>
    /\ UNCHANGED <<exec_vars, store_vars, chan_vars>>

\* CapabilityRegistry::grant_temporary
grant_temporary(scope, capability, duration, granted_by) ==
    /\ op_count < MaxOps
    /\ capabilities' = push_grant(capabilities, scope,
                          with_expiry(GrantedCapability_new(capability, granted_by, now),
                                      duration, now))
    /\ audit_log' = audit(audit_log, capability, "Granted", scope, TRUE, now)
    /\ last_op' = [op |-> "grant_temporary", scope |-> scope,
                   capability |-> capability, ok |-> TRUE, err |-> ""]
    /\ op_count' = op_count + 1
    /\ UNCHANGED <<interactive, default_consent, now>>
    /\ UNCHANGED <<exec_vars, store_vars, chan_vars>>

\* CapabilityRegistry::revoke
revoke(scope, capability) ==
    /\ op_count < MaxOps
    /\ capabilities' = revoke_marks(capabilities, scope, capability)
    /\ audit_log' = audit(audit_log, capability, "Revoked", scope, TRUE, now)
    /\ last_op' = [op |-> "revoke", scope |-> scope, capability |-> capability,
                   ok |-> TRUE, err |-> ""]
    /\ op_count' = op_count + 1
    /\ UNCHANGED <<interactive, default_consent, now>>
    /\ UNCHANGED <<exec_vars, store_vars, chan_vars>>

request_outcome_forgets_grant(caps, log, inter, dflt, t, scope, capability, line) ==
    IF HasCap(caps, t, scope, capability)
    THEN [caps |-> caps,
          log |-> audit(log, capability, "Used", scope, TRUE, t),
          ok |-> TRUE, err |-> ""]
    ELSE LET log1 == audit(log, capability, "Requested", scope, TRUE, t)
             granted(by) ==
                 [caps |-> caps,
                  log |-> audit(log1, capability, "Granted", scope, TRUE, t),
                  ok |-> TRUE, err |-> ""]
             denied ==
                 [caps |-> caps,
                  log |-> audit(log1, capability, "Denied", scope, FALSE, t),
                  ok |-> FALSE, err |-> "CapabilityNotGranted"]
         IN IF ~inter
            THEN IF dflt THEN granted("auto") ELSE denied
            ELSE IF accepts(line) THEN granted("user") ELSE denied

\* the registry and audit log CapabilityRegistry::request leaves behind, and
\* its result, for the line read from stdin
request_outcome(caps, log, inter, dflt, t, scope, capability, line) ==
    IF HasCap(caps, t, scope, capability)
    THEN [caps |-> caps,
          log |-> audit(log, capability, "Used", scope, TRUE, t),
          ok |-> TRUE, err |-> ""]
    ELSE LET log1 == audit(log, capability, "Requested", scope, TRUE, t)
             granted(by) ==
                 [caps |-> push_grant(caps, scope,
                                      GrantedCapability_new(capability, by, t)),
                  log |-> audit(log1, capability, "Granted", scope, TRUE, t),
                  ok |-> TRUE, err |-> ""]
             denied ==
                 [caps |-> caps,
                  log |-> audit(log1, capability, "Denied", scope, FALSE, t),
                  ok |-> FALSE, err |-> "CapabilityNotGranted"]
         IN IF ~inter
            THEN IF dflt THEN granted("auto") ELSE denied
            ELSE IF accepts(line) THEN granted("user") ELSE denied

\* CapabilityRegistry::request
request(scope, capability, line) ==
    /\ op_count < MaxOps
    /\ LET r == request_outcome(capabilities, audit_log, interactive,
                                default_consent, now, scope, capability, line)
       IN /\ capabilities' = r.caps
          /\ audit_log' = r.log
          /\ last_op' = [op |-> "request", scope |-> scope,
                         capability |-> capability, ok |-> r.ok, err |-> r.err]
    /\ op_count' = op_count + 1
    /\ UNCHANGED <<interactive, default_consent, now>>
    /\ UNCHANGED <<exec_vars, store_vars, chan_vars>>

\* CapabilityRegistry::cleanup_expired
cleanup_expired ==
    /\ capabilities' = retain_valid(capabilities, now)
    /\ capabilities' # capabilities
    /\ UNCHANGED <<audit_log, interactive, default_consent, now, last_op, op_count>>
    /\ UNCHANGED <<exec_vars, store_vars, chan_vars>>

\* CapabilityRegistry::set_interactive
set_interactive(b) ==
    /\ interactive # b
    /\ interactive' = b
    /\ UNCHANGED <<capabilities, audit_log, default_consent, now, last_op, op_count>>
    /\ UNCHANGED <<exec_vars, store_vars, chan_vars>>

\* CapabilityRegistry::set_default_consent
set_default_consent(b) ==
    /\ default_consent # b
    /\ default_consent' = b
    /\ UNCHANGED <<capabilities, audit_log, interactive, now, last_op, op_count>>
    /\ UNCHANGED <<exec_vars, store_vars, chan_vars>>

\* the system clock advances; time before the first operation only shifts
\* the origin of every timestamp, so the clock starts with the first operation
Tick ==
    /\ op_count > 0
    /\ now < MaxTime
    /\ now' = now + 1
    /\ UNCHANGED <<capabilities, audit_log, interactive, default_consent,
                   last_op, op_count>>
    /\ UNCHANGED <<exec_vars, store_vars, chan_vars>>

Grant == \E s \in OpScopes, c \in Capabilities : grant(s, c, "test")

GrantTemporary ==
    \E s \in OpScopes, c \in Capabilities, d \in Durations :
        grant_temporary(s, c, d, "test")

Revoke == \E s \in OpScopes, c \in Capabilities : revoke(s, c)

Request == \E s \in OpScopes, c \in Capabilities, l \in StdinLines : request(s, c, l)

SetInteractive == \E b \in BOOLEAN : set_interactive(b)

SetDefaultConsent == \E b \in BOOLEAN : set_default_consent(b)

RegNext ==
    \/ Grant
    \/ GrantTemporary
    \/ Revoke
    \/ Request
    \/ cleanup_expired
    \/ SetInteractive
    \/ SetDefaultConsent
    \/ Tick

SpecRegistry == RegInit /\ [][RegNext]_vars


(***************************************************************************)
(* Claims about the capability registry (checked under SpecRegistry).      *)
(***************************************************************************)

\* a grant record that is neither revoked nor expired at the current clock
GrantIsLive(g) ==
    ~g.revoked /\ (g.expires_at = NoExpiry \/ now <= g.expires_at)

\* g's capability equals c, or is the parameter-less form of c's kind
GrantCovers(g, c) ==
    \/ g.capability = c
    \/ g.capability.kind = c.kind /\ g.capability.param = NoneParam

\* C2: has_capability(scope, cap) is true exactly when some grant record that
\* is neither revoked nor expired, stored under scope or under "*", equals cap
\* or is the wildcard form of cap's kind.
C2_HasCapabilityIffLiveCoveringGrant ==
    \A s \in Scopes, c \in QueryCaps :
        has_capability(s, c) <=>
            \E sc \in {s, GlobalScope} : \E i \in 1..Len(capabilities[sc]) :
                GrantIsLive(capabilities[sc][i]) /\ GrantCovers(capabilities[sc][i], c)

\* a wildcard held globally answers for a scope without grants, next to an
\* expired grant that no longer answers
C2_Witness ==
    /\ has_capability("aux", Cap("Network", "b"))
    /\ capabilities["aux"] = <<>>
    /\ \E i \in 1..Len(capabilities["main"]) :
          /\ capabilities["main"][i].expires_at # NoExpiry
          /\ now > capabilities["main"][i].expires_at
          /\ ~has_capability("main", capabilities["main"][i].capability)

\* C3 (as claimed): once revoke(scope, cap) has returned, has_capability(scope,
\* cap) is false until the next grant or request, whatever was granted before.
C3_RevokedCapabilityIsGone ==
    last_op.op = "revoke" => ~has_capability(last_op.scope, last_op.capability)

\* C4: request succeeds exactly when has_capability holds right after it; a
\* capability already held adds no grant record, an accepted request adds
\* one, a refused request fails with CapabilityNotGranted and leaves every
\* grant record as it was.
C4_RequestResultMatchesRegistry ==
    [][ (op_count' # op_count /\ last_op'.op = "request") =>
          LET s == last_op'.scope
              c == last_op'.capability
              held == HasCap(capabilities, now, s, c)
          IN /\ last_op'.ok <=> HasCap(capabilities', now', s, c)
             /\ held => last_op'.ok /\ capabilities' = capabilities
             /\ ~last_op'.ok =>
                   /\ last_op'.err = "CapabilityNotGranted"
                   /\ capabilities' = capabilities
             /\ (~held /\ last_op'.ok) =>
                   /\ Len(capabilities'[s]) = Len(capabilities[s]) + 1
                   /\ capabilities'[s][Len(capabilities'[s])].capability = c
                   /\ \A o \in Scopes \ {s} : capabilities'[o] = capabilities[o]
       ]_vars

\* a request refused by the user although an expired grant of the very
\* capability is still stored
C4_Witness ==
    /\ last_op.op = "request"
    /\ ~last_op.ok
    /\ interactive
    /\ \E i \in 1..Len(capabilities[last_op.scope]) :
          capabilities[last_op.scope][i].capability = last_op.capability

ExpiryPasses(t, t2) ==
    \E s \in Scopes : \E i \in 1..Len(capabilities[s]) :
        LET g == capabilities[s][i] IN
        /\ ~g.revoked
        /\ g.expires_at # NoExpiry
        /\ t <= g.expires_at
        /\ g.expires_at < t2

C6_AuditLogAppendOnly ==
    [][ /\ Len(audit_log') >= Len(audit_log)
        /\ SubSeq(audit_log', 1, Len(audit_log)) = audit_log
        /\ op_count' # op_count =>
              /\ Len(audit_log') > Len(audit_log)
              /\ LET e == audit_log'[Len(audit_log')] IN
                 /\ e.capability = last_op'.capability
                 /\ e.context = last_op'.scope
                 /\ last_op'.op \in {"grant", "grant_temporary"} =>
                       e.action = "Granted" /\ e.success
                 /\ last_op'.op = "revoke" => e.action = "Revoked"
                 /\ last_op'.op = "request" =>
                       IF last_op'.ok
                       THEN e.action \in {"Used", "Granted"} /\ e.success
                       ELSE e.action = "Denied" /\ ~e.success
       ]_vars

\* a request denied by the non-interactive default after an earlier operation:
\* the log holds the earlier entry, then Requested, then Denied
C6_Witness ==
    /\ last_op.op = "request"
    /\ ~last_op.ok
    /\ ~interactive
    /\ Len(audit_log) >= 3
    /\ audit_log[Len(audit_log) - 1].action = "Requested"
    /\ audit_log[Len(audit_log)].action = "Denied"

(***************************************************************************)
(*                        THE EXECUTION STACK                              *)
(*                                                                         *)
(* Runtime values (interpreter/value.rs:179-197).  Int, String, Bool,      *)
(* Unit, Okay, Oops and Function are modelled; literals are small, so i64  *)
(* arithmetic stays far from its limits.  Each variant keeps its payload   *)
(* in a field of its own.                                                  *)
(***************************************************************************)
Int_(n) == [t |-> "Int", i |-> n]
String_(s) == [t |-> "String", s |-> s]
Bool_(b) == [t |-> "Bool", b |-> b]
Unit == [t |-> "Unit"]
Okay_(v) == [t |-> "Okay", ok |-> v]
Oops_(e) == [t |-> "Oops", e |-> e]
\* Value::Function(Closure { params, body, env }).  Nothing writes to the
\* CapturedEnv behind the Rc<RefCell<..>>, so env is the map of bindings itself
Function_(params, body, env) ==
    [t |-> "Function", params |-> params, body |-> body, env |-> env]

is_truthy(v) ==
    CASE v.t = "Bool" -> v.b
      [] v.t = "Int" -> v.i # 0
      [] v.t = "String" -> v.s # ""
      [] v.t = "Unit" -> FALSE
      [] v.t = "Okay" -> TRUE
      [] v.t = "Oops" -> FALSE
      [] v.t = "Function" -> TRUE

is_okay(v) == v.t = "Okay"

is_oops(v) == v.t = "Oops"

\* impl fmt::Display for Value
RECURSIVE to_string(_)
to_string(v) ==
    CASE v.t = "Int" -> ToString(v.i)
      [] v.t = "String" -> v.s
      [] v.t = "Bool" -> IF v.b THEN "true" ELSE "false"
      [] v.t = "Unit" -> "()"
      [] v.t = "Okay" -> "Okay(" \o to_string(v.ok) \o ")"
      [] v.t = "Oops" -> "Oops(\"" \o v.e \o "\")"

\* i64 division and remainder truncate toward zero
Abs(n) == IF n < 0 THEN -n ELSE n

TruncDiv(a, b) ==
    IF (a < 0) = (b < 0) THEN Abs(a) \div Abs(b) ELSE -(Abs(a) \div Abs(b))

TruncRem(a, b) == a - b * TruncDiv(a, b)

EmptyMap == [n \in {} |-> n]

MapPut(m, k, v) == (k :> v) @@ m

(***************************************************************************)
(* Abstract syntax (ast/mod.rs).  Expr::Okay / Expr::Oops are the nodes    *)
(* the bytecode compiler calls ResultConstructor.                          *)
(***************************************************************************)
Literal(v) == [k |-> "Literal", v |-> v]
Identifier(name) == [k |-> "Identifier", name |-> name]
Binary(op, left, right) == [k |-> "Binary", op |-> op, left |-> left, right |-> right]
Unary(op, operand) == [k |-> "Unary", op |-> op, operand |-> operand]
Call(name, args) == [k |-> "Call", name |-> name, args |-> args]
OkayExpr(inner) == [k |-> "Okay", inner |-> inner]
OopsExpr(inner) == [k |-> "Oops", inner |-> inner]
Unwrap(inner) == [k |-> "Unwrap", inner |-> inner]
CallExpr(callee, args) == [k |-> "CallExpr", callee |-> callee, args |-> args]
\* LambdaExpr with body LambdaBody::Expr(expr) or LambdaBody::Block(stmts)
Lambda(params, body) == [k |-> "Lambda", params |-> params, body |-> body]
LambdaBody_Expr(expr) == [kind |-> "Expr", expr |-> expr]
LambdaBody_Block(stmts) == [kind |-> "Block", stmts |-> stmts]

VarDecl(name, value) == [k |-> "VarDecl", name |-> name, value |-> value]
Assignment(target, value) == [k |-> "Assignment", target |-> target, value |-> value]
Return(value) == [k |-> "Return", value |-> value]
Conditional(condition, then_branch, has_else, else_branch) ==
    [k |-> "Conditional", condition |-> condition, then_branch |-> then_branch,
     has_else |-> has_else, else_branch |-> else_branch]
Loop(count, body) == [k |-> "Loop", count |-> count, body |-> body]
AttemptBlock(body) == [k |-> "AttemptBlock", body |-> body]
ConsentBlock(permission, body) ==
    [k |-> "ConsentBlock", permission |-> permission, body |-> body]
Expression(expr) == [k |-> "Expression", expr |-> expr]
Decide(scrutinee, arms) == [k |-> "Decide", scrutinee |-> scrutinee, arms |-> arms]
MatchArm(pattern, body) == [pattern |-> pattern, body |-> body]
\* enum Pattern; Constructor(name, None) has has_inner FALSE
Pattern_Literal(lit) == [p |-> "Literal", lit |-> lit]
Pattern_Identifier(name) == [p |-> "Identifier", name |-> name]
Pattern_Wildcard == [p |-> "Wildcard"]
Pattern_Constructor(name, has_inner, inner) ==
    [p |-> "Constructor", name |-> name, has_inner |-> has_inner, inner |-> inner]
Complain(message) == [k |-> "Complain", message |-> message]

FunctionDef(name, params, body) ==
    [k |-> "Function", name |-> name, params |-> params, body |-> body]
WorkerDef(name, body) == [k |-> "WorkerDef", name |-> name, body |-> body]

(***************************************************************************)
(* The tree-walking interpreter (interpreter/mod.rs).  An Interpreter      *)
(* record I carries env (a stack of scopes), functions, consent_cache, the *)
(* unread stdin lines, everything written to stdout, and the depth of the  *)
(* native call stack.  Every operator returns an outcome record:           *)
(*   tag "ok" with control flow cf and value v, tag "err" (RuntimeError),  *)
(*   or tag "panic" (the process aborts).                                  *)
(***************************************************************************)
InterpMaxDepth == 3   \* native stack frames available to call_function

IOk(I, v) == [I |-> I, tag |-> "ok", cf |-> "Continue", v |-> v, err |-> ""]
IReturn(I, v) == [I |-> I, tag |-> "ok", cf |-> "Return", v |-> v, err |-> ""]
IErr(I, e) == [I |-> I, tag |-> "err", cf |-> "Continue", v |-> Unit, err |-> e]
IPanic(I, e) == [I |-> I, tag |-> "panic", cf |-> "Continue", v |-> Unit, err |-> e]

\* Environment (interpreter/mod.rs:49-92)
push_scope(env) == Append(env, EmptyMap)

pop_scope(env) == IF Len(env) = 0 THEN env ELSE SubSeq(env, 1, Len(env) - 1)

define(env, name, value) ==
    IF Len(env) = 0 THEN env
    ELSE [env EXCEPT ![Len(env)] = MapPut(@, name, value)]

holding(env, name) == {i \in 1..Len(env) : name \in DOMAIN env[i]}

innermost(env, name) ==
    CHOOSE i \in holding(env, name) : \A j \in holding(env, name) : j <= i

env_get(env, name) == env[innermost(env, name)][name]

env_set(env, name, value) ==
    [env EXCEPT ![innermost(env, name)] = MapPut(@, name, value)]

literal_to_value(lit) == lit

RECURSIVE pattern_matches(_, _)
pattern_matches(pattern, value) ==
    CASE pattern.p = "Wildcard" -> TRUE
      [] pattern.p = "Identifier" -> TRUE
      [] pattern.p = "Literal" -> value = literal_to_value(pattern.lit)
      [] pattern.p = "Constructor" ->
           IF pattern.name = "Okay" /\ value.t = "Okay"
           THEN IF pattern.has_inner THEN pattern_matches(pattern.inner, value.ok)
                ELSE TRUE
           ELSE pattern.name = "Oops" /\ value.t = "Oops"

RECURSIVE bind_pattern(_, _, _)
bind_pattern(env, pattern, value) ==
    CASE pattern.p = "Identifier" -> define(env, pattern.name, value)
      [] pattern.p = "Constructor" ->
           IF ~pattern.has_inner THEN env
           ELSE IF pattern.name = "Okay" /\ value.t = "Okay"
           THEN bind_pattern(env, pattern.inner, value.ok)
           ELSE IF pattern.name = "Oops" /\ value.t = "Oops"
           THEN bind_pattern(env, pattern.inner, String_(value.e))
           ELSE env
      [] OTHER -> env

\* Interpreter::capture_environment: all scopes flattened into one map, the
\* inner scopes inserted last
capture_environment(env) ==
    [name \in UNION {DOMAIN env[i] : i \in 1..Len(env)} |-> env_get(env, name)]

\* String's Ord: byte-wise lexicographic, over the characters programs use
Ascii == " ()0123456789:ABCDEFGHIJKLMNOPQRSTUVWXYZabcdefghijklmnopqrstuvwxyz"

CharRank(c) == CHOOSE i \in 1..Len(Ascii) : SubSeq(Ascii, i, i) = c

RECURSIVE string_less(_, _)
string_less(a, b) ==
    IF b = "" THEN FALSE
    ELSE IF a = "" THEN TRUE
    ELSE IF Head(a) = Head(b) THEN string_less(Tail(a), Tail(b))
    ELSE CharRank(Head(a)) < CharRank(Head(b))

apply_binary_op(op, left, right) ==
    LET ok(v) == [tag |-> "ok", v |-> v, err |-> ""]
        bad(e) == [tag |-> "err", v |-> Unit, err |-> e]
        ints == left.t = "Int" /\ right.t = "Int"
        strs == left.t = "String" /\ right.t = "String"
        \* lt, eq: the outcome of comparing two Ints or two Strings
        lt == IF ints THEN left.i < right.i ELSE string_less(left.s, right.s)
        eq == left = right
        cmp(b) == IF ints \/ strs THEN ok(Bool_(b))
                  ELSE bad("Type error: Cannot compare these types")
    IN CASE op = "Add" ->
              IF ints THEN ok(Int_(left.i + right.i))
              ELSE IF left.t = "String" /\ right.t = "String"
                   THEN ok(String_(left.s \o right.s))
              ELSE IF left.t = "String" THEN ok(String_(left.s \o to_string(right)))
              ELSE IF right.t = "String" THEN ok(String_(to_string(left) \o right.s))
              ELSE bad("Type error: Cannot add these types")
         [] op = "Sub" ->
              IF ints THEN ok(Int_(left.i - right.i))
              ELSE bad("Type error: Cannot subtract these types")
         [] op = "Mul" ->
              IF ints THEN ok(Int_(left.i * right.i))
              ELSE bad("Type error: Cannot multiply these types")
         [] op = "Div" ->
              IF right.t = "Int" /\ right.i = 0 THEN bad("Division by zero")
              ELSE IF ints THEN ok(Int_(TruncDiv(left.i, right.i)))
              ELSE bad("Type error: Cannot divide these types")
         [] op = "Mod" ->
              IF ints
              THEN IF right.i = 0
                   THEN [tag |-> "panic", v |-> Unit,
                         err |-> "attempt to calculate the remainder with a divisor of zero"]
                   ELSE ok(Int_(TruncRem(left.i, right.i)))
              ELSE bad("Type error: Modulo requires integers")
         [] op = "Eq" -> ok(Bool_(left = right))
         [] op = "NotEq" -> ok(Bool_(left # right))
         [] op = "Lt" -> cmp(lt)
         [] op = "Gt" -> cmp(~lt /\ ~eq)
         [] op = "LtEq" -> cmp(lt \/ eq)
         [] op = "GtEq" -> cmp(~lt)
         [] op = "And" -> ok(Bool_(is_truthy(left) /\ is_truthy(right)))
         [] op = "Or" -> ok(Bool_(is_truthy(left) \/ is_truthy(right)))

apply_unary_op(op, val) ==
    CASE op = "Neg" ->
           IF val.t = "Int" THEN [tag |-> "ok", v |-> Int_(-val.i), err |-> ""]
           ELSE [tag |-> "err", v |-> Unit, err |-> "Type error: Cannot negate this type"]
      [] op = "Not" -> [tag |-> "ok", v |-> Bool_(~is_truthy(val)), err |-> ""]

RECURSIVE join_args(_, _)
join_args(args, i) ==
    IF i > Len(args) THEN ""
    ELSE (IF i > 1 THEN " " ELSE "") \o to_string(args[i]) \o join_args(args, i + 1)

Builtins == {"print", "len", "toString", "isOkay", "isOops", "unwrapOr", "getError"}

\* call_builtin for a name in Builtins
call_builtin(I, name, args) ==
    LET arity(n) == IErr(I, "Arity mismatch")
    IN CASE name = "print" ->
              IOk([I EXCEPT !.out = Append(@, join_args(args, 1))], Unit)
         [] name = "len" ->
              IF Len(args) # 1 THEN arity(1)
              ELSE IF args[1].t = "String" THEN IOk(I, Int_(Len(args[1].s)))
              ELSE IErr(I, "Type error: len() requires string or array")
         [] name = "toString" ->
              IF Len(args) # 1 THEN arity(1) ELSE IOk(I, String_(to_string(args[1])))
         [] name = "isOkay" ->
              IF Len(args) # 1 THEN arity(1) ELSE IOk(I, Bool_(is_okay(args[1])))
         [] name = "isOops" ->
              IF Len(args) # 1 THEN arity(1) ELSE IOk(I, Bool_(is_oops(args[1])))
         [] name = "unwrapOr" ->
              IF Len(args) # 2 THEN arity(2)
              ELSE IF args[1].t = "Okay" THEN IOk(I, args[1].ok)
              ELSE IF args[1].t = "Oops" THEN IOk(I, args[2])
              ELSE IOk(I, args[1])
         [] name = "getError" ->
              IF Len(args) # 1 THEN arity(1)
              ELSE IF args[1].t = "Oops" THEN IOk(I, String_(args[1].e))
              ELSE IOk(I, Unit)

\* the line a consent prompt reads; an exhausted stdin reads as the empty line
read_line(input) == IF Len(input) = 0 THEN "" ELSE Head(input)

consent_granted(line) == trim_lower(line) = "y"

consent_prompt(permission) ==
    "Permission requested: '" \o permission \o "'. Allow? [y/N]: "

\* the outcome of apply_binary_op / apply_unary_op inside evaluate
op_result(I, res) ==
    [I |-> I, tag |-> res.tag, cf |-> "Continue", v |-> res.v, err |-> res.err]

\* Below, on_x(x) is what follows a step with outcome x; the ? operator of the
\* source leaves with an error or a panic at once.
RECURSIVE evaluate(_, _), evaluate_args(_, _, _, _), execute_statement(_, _),
          execute_statements(_, _, _), execute_loop(_, _, _),
          execute_consent_body(_, _, _), execute_consent_block(_, _),
          interp_call_function(_, _, _),
          call_closure(_, _, _), execute_arms(_, _, _, _)

evaluate(I, expr) ==
    CASE expr.k = "Literal" -> IOk(I, literal_to_value(expr.v))
      [] expr.k = "Identifier" ->
           IF holding(I.env, expr.name) # {} THEN IOk(I, env_get(I.env, expr.name))
           ELSE IErr(I, "Undefined variable")
      [] expr.k = "Binary" ->
           LET on_l(l) ==
                   IF l.tag # "ok" THEN l ELSE
                   LET on_r(r) ==
                           IF r.tag # "ok" THEN r ELSE
                           op_result(r.I, apply_binary_op(expr.op, l.v, r.v))
                   IN on_r(evaluate(l.I, expr.right))
           IN on_l(evaluate(I, expr.left))
      [] expr.k = "Unary" ->
           LET on_o(o) ==
                   IF o.tag # "ok" THEN o ELSE
                   op_result(o.I, apply_unary_op(expr.op, o.v))
           IN on_o(evaluate(I, expr.operand))
      [] expr.k = "Call" ->
           LET on_a(a) ==
                   IF a.tag # "ok" THEN a ELSE
                   IF expr.name \in Builtins THEN call_builtin(a.I, expr.name, a.v)
                   ELSE interp_call_function(a.I, expr.name, a.v)
           IN on_a(evaluate_args(I, expr.args, 1, <<>>))
      [] expr.k = "Okay" ->
           LET on_r(r) ==
                   IF r.tag # "ok" THEN r ELSE
                   IOk(r.I, Okay_(r.v))
           IN on_r(evaluate(I, expr.inner))
      [] expr.k = "Oops" ->
           LET on_r(r) ==
                   IF r.tag # "ok" THEN r ELSE
                   IF r.v.t = "String" THEN IOk(r.I, Oops_(r.v.s))
                   ELSE IOk(r.I, Oops_(to_string(r.v)))
           IN on_r(evaluate(I, expr.inner))
      [] expr.k = "Unwrap" ->
           LET on_r(r) ==
                   IF r.tag # "ok" THEN r ELSE
                   IF r.v.t = "Okay" THEN IOk(r.I, r.v.ok)
                   ELSE IF r.v.t = "Oops" THEN IErr(r.I, "Complaint: " \o r.v.e)
                   ELSE IOk(r.I, r.v)
           IN on_r(evaluate(I, expr.inner))
      [] expr.k = "Lambda" ->
           IOk(I, Function_(expr.params, expr.body, capture_environment(I.env)))
      [] expr.k = "CallExpr" ->
           LET on_c(c) ==
                   IF c.tag # "ok" THEN c ELSE
                   LET on_a(a) ==
                           IF a.tag # "ok" THEN a ELSE
                           IF c.v.t = "Function" THEN call_closure(a.I, c.v, a.v)
                           ELSE IErr(a.I, "Type error: Cannot call non-function value")
                   IN on_a(evaluate_args(c.I, expr.args, 1, <<>>))
           IN on_c(evaluate(I, expr.callee))

\* args.iter().map(|a| self.evaluate(a)).collect::<Result<_>>()
evaluate_args(I, args, i, acc) ==
    IF i > Len(args) THEN IOk(I, acc)
    ELSE LET on_r(r) ==
                 IF r.tag # "ok" THEN r ELSE
                 evaluate_args(r.I, args, i + 1, Append(acc, r.v))
         IN on_r(evaluate(I, args[i]))

\* for stmt in stmts { if let Return(v) = self.execute_statement(stmt)? { return } }
execute_statements(I, stmts, i) ==
    IF i > Len(stmts) THEN IOk(I, Unit)
    ELSE LET on_r(r) ==
                 IF r.tag # "ok" THEN r ELSE
                 IF r.cf = "Return" THEN r ELSE execute_statements(r.I, stmts, i + 1)
         IN on_r(execute_statement(I, stmts[i]))

\* for _ in 0..n { body }
execute_loop(I, body, n) ==
    IF n <= 0 THEN IOk(I, Unit)
    ELSE LET on_r(r) ==
                 IF r.tag # "ok" THEN r ELSE
                 IF r.cf = "Return" THEN r ELSE execute_loop(r.I, body, n - 1)
         IN on_r(execute_statements(I, body, 1))

\* what an attempt block makes of its body's outcome r: the scope is popped,
\* an error is reported on stderr and execution continues
attempt_result(r) ==
    IF r.tag = "err" THEN IOk([r.I EXCEPT !.env = pop_scope(@)], Unit)
    ELSE [r EXCEPT !.I.env = pop_scope(@)]

execute_statement(I, stmt) ==
    CASE stmt.k = "VarDecl" ->
           LET on_r(r) ==
                   IF r.tag # "ok" THEN r ELSE
                   IOk([r.I EXCEPT !.env = define(@, stmt.name, r.v)], Unit)
           IN on_r(evaluate(I, stmt.value))
      [] stmt.k = "Assignment" ->
           LET on_r(r) ==
                   IF r.tag # "ok" THEN r ELSE
                   IF holding(r.I.env, stmt.target) = {}
                   THEN IErr(r.I, "Undefined variable")
                   ELSE IOk([r.I EXCEPT !.env = env_set(@, stmt.target, r.v)], Unit)
           IN on_r(evaluate(I, stmt.value))
      [] stmt.k = "Return" ->
           LET on_r(r) ==
                   IF r.tag # "ok" THEN r ELSE
                   IReturn(r.I, r.v)
           IN on_r(evaluate(I, stmt.value))
      [] stmt.k = "Conditional" ->
           LET on_c(c) ==
                   IF c.tag # "ok" THEN c ELSE
                   IF is_truthy(c.v) THEN execute_statements(c.I, stmt.then_branch, 1)
                   ELSE IF stmt.has_else THEN execute_statements(c.I, stmt.else_branch, 1)
                   ELSE IOk(c.I, Unit)
           IN on_c(evaluate(I, stmt.condition))
      [] stmt.k = "Loop" ->
           LET on_c(c) ==
                   IF c.tag # "ok" THEN c ELSE
                   IF c.v.t # "Int"
                   THEN IErr(c.I, "Type error: Loop count must be an integer")
                   ELSE execute_loop(c.I, stmt.body, c.v.i)
           IN on_c(evaluate(I, stmt.count))
      [] stmt.k = "AttemptBlock" ->
           attempt_result(
               execute_statements([I EXCEPT !.env = push_scope(@)], stmt.body, 1))
      [] stmt.k = "ConsentBlock" ->
           LET on_r(r) ==
                   IF r.tag # "ok" THEN r ELSE
                   IOk(r.I, Unit)
           IN on_r(execute_consent_block(I, stmt))
      [] stmt.k = "Decide" ->
           LET on_s(s) ==
                   IF s.tag # "ok" THEN s ELSE
                   execute_arms(s.I, stmt.arms, 1, s.v)
           IN on_s(evaluate(I, stmt.scrutinee))
      [] stmt.k = "Expression" ->
           LET on_r(r) ==
                   IF r.tag # "ok" THEN r ELSE
                   IOk(r.I, Unit)
           IN on_r(evaluate(I, stmt.expr))
      \* the complaint goes to stderr
      [] stmt.k = "Complain" -> IOk(I, Unit)

\* what the Decide arm makes of the outcome r of the body of the matching arm:
\* the ? leaves with an error before pop_scope
arm_result(r) ==
    IF r.tag # "ok" THEN r ELSE [r EXCEPT !.I.env = pop_scope(@)]

\* for arm in &decide.arms { if self.pattern_matches(..) { ..; break; } }
execute_arms(I, arms, i, scrutinee) ==
    IF i > Len(arms) THEN IOk(I, Unit)
    ELSE IF pattern_matches(arms[i].pattern, scrutinee)
    THEN arm_result(
             execute_statements(
                 [I EXCEPT !.env = bind_pattern(push_scope(@), arms[i].pattern,
                                                scrutinee)],
                 arms[i].body, 1))
    ELSE execute_arms(I, arms, i + 1, scrutinee)

\* for stmt in &consent.body { self.execute_statement(stmt)?; }
execute_consent_body(I, stmts, i) ==
    IF i > Len(stmts) THEN IOk(I, Unit)
    ELSE LET on_r(r) ==
                 IF r.tag # "ok" THEN r ELSE
                 execute_consent_body(r.I, stmts, i + 1)
         IN on_r(execute_statement(I, stmts[i]))

execute_consent_block(I, consent) ==
    LET permission == consent.permission
        cached == permission \in DOMAIN I.consent_cache
        line == read_line(I.input)
        asked == [I EXCEPT !.out = Append(@, consent_prompt(permission)),
                           !.input = IF Len(@) = 0 THEN @ ELSE Tail(@),
                           !.consent_cache =
                               MapPut(@, permission, consent_granted(line))]
        I1 == IF cached THEN I ELSE asked
        granted == I1.consent_cache[permission]
    IN IF ~cached /\ line = "READ_ERR"
       THEN IPanic([I EXCEPT !.out = Append(@, consent_prompt(permission))],
                   "called Result::unwrap() on an Err value")
       ELSE IF granted
       THEN LET on_r(r) ==
                    IF r.tag # "ok" THEN r ELSE
                    IOk([r.I EXCEPT !.env = pop_scope(@)], Unit)
            IN on_r(execute_consent_body([I1 EXCEPT !.env = push_scope(@)],
                                         consent.body, 1))
       ELSE IOk(I1, Unit)

RECURSIVE bind_params(_, _, _, _)
bind_params(env, params, args, i) ==
    IF i > Len(params) THEN env
    ELSE bind_params(define(env, params[i], args[i]), params, args, i + 1)

\* what call_function makes of its body's outcome r: on an error the ? leaves
\* before pop_scope; depth is the native recursion depth of the caller
call_result(r, depth) ==
    IF r.tag # "ok" THEN [r EXCEPT !.I.depth = depth]
    ELSE IOk([r.I EXCEPT !.env = pop_scope(@), !.depth = depth],
             IF r.cf = "Return" THEN r.v ELSE Unit)

\* what call_closure makes of its body's outcome r: self.env = saved_env,
\* except where the ? in a block body leaves with the error before it
closure_result(r, body, saved_env) ==
    IF r.tag # "ok"
    THEN IF body.kind = "Block" THEN r ELSE [r EXCEPT !.I.env = saved_env]
    ELSE IOk([r.I EXCEPT !.env = saved_env],
             IF body.kind = "Expr" \/ r.cf = "Return" THEN r.v ELSE Unit)

call_closure(I, closure, args) ==
    IF Len(closure.params) # Len(args) THEN IErr(I, "Arity mismatch")
    ELSE closure_result(
             IF closure.body.kind = "Expr"
             THEN evaluate([I EXCEPT !.env = bind_params(push_scope(<<closure.env>>),
                                                         closure.params, args, 1)],
                           closure.body.expr)
             ELSE execute_statements(
                      [I EXCEPT !.env = bind_params(push_scope(<<closure.env>>),
                                                    closure.params, args, 1)],
                      closure.body.stmts, 1),
             closure.body, I.env)

interp_call_function(I, name, args) ==
    \* first, a variable of that name holding a closure
    IF holding(I.env, name) # {} /\ env_get(I.env, name).t = "Function"
    THEN call_closure(I, env_get(I.env, name), args)
    ELSE IF name \notin DOMAIN I.functions THEN IErr(I, "Undefined function")
    ELSE IF Len(I.functions[name].params) # Len(args) THEN IErr(I, "Arity mismatch")
    \* the recursion of call_function runs out of native stack
    ELSE IF I.depth >= InterpMaxDepth THEN IPanic(I, "stack overflow")
    ELSE call_result(
             execute_statements(
                 [I EXCEPT !.env = bind_params(push_scope(@),
                                               I.functions[name].params, args, 1),
                           !.depth = @ + 1],
                 I.functions[name].body, 1),
             I.depth)

\* first pass of Interpreter::run: functions.insert(f.name.clone(), f.clone())
RECURSIVE collect_functions(_, _, _)
collect_functions(items, i, acc) ==
    IF i > Len(items) THEN acc
    ELSE collect_functions(items, i + 1,
             IF items[i].k = "Function" THEN MapPut(acc, items[i].name, items[i])
             ELSE acc)

Interpreter_new(input) ==
    [env |-> <<EmptyMap>>, functions |-> EmptyMap, consent_cache |-> EmptyMap,
     input |-> input, out |-> <<>>, depth |-> 0]

\* second pass of Interpreter::run: the top-level consent blocks, in order
RECURSIVE run_items(_, _, _)
run_items(I, items, i) ==
    IF i > Len(items) THEN IOk(I, Unit)
    ELSE IF items[i].k = "ConsentBlock"
         THEN LET on_r(r) ==
                      IF r.tag # "ok" THEN r ELSE
                      run_items(r.I, items, i + 1)
              IN on_r(execute_consent_block(I, items[i]))
         ELSE run_items(I, items, i + 1)

\* Interpreter::run; v is the value the call of main produced
Interpreter_run(items, input) ==
    LET on_r(r) ==
            IF r.tag # "ok" THEN r ELSE
            IF "main" \in DOMAIN r.I.functions
            THEN interp_call_function(r.I, "main", <<>>)
            ELSE IOk(r.I, Unit)
    IN on_r(run_items([Interpreter_new(input) EXCEPT
                           !.functions = collect_functions(items, 1, EmptyMap)],
                      items, 1))

(***************************************************************************)
(* Bytecode (vm/bytecode.rs).  Instruction operands, constant indices,     *)
(* local slots, jump targets and function indices count from 0 as in the   *)
(* source; sequences are indexed with the operand plus one.                *)
(***************************************************************************)
Op0(op) == [op |-> op]
Op1(op, a) == [op |-> op, a |-> a]
OpN(op, name) == [op |-> op, name |-> name]

\* CompiledFunction::new
CompiledFunction_new(name, arity) ==
    [name |-> name, arity |-> arity, locals |-> arity, code |-> <<>>,
     constants |-> <<>>]

\* index CompiledFunction::add_constant returns for value
CompiledFunction_constant_index(func, value) ==
    LET same == {i \in 1..Len(func.constants) : func.constants[i] = value}
    IN IF same = {} THEN Len(func.constants)
       ELSE (CHOOSE i \in same : \A j \in same : i <= j) - 1

\* CompiledFunction::add_constant
CompiledFunction_add_constant(func, value) ==
    IF CompiledFunction_constant_index(func, value) < Len(func.constants) THEN func
    ELSE [func EXCEPT !.constants = Append(@, value)]

NoEntry == -1   \* CompiledProgram.entry = None

\* CompiledProgram::new
CompiledProgram_new == [functions |-> <<>>, entry |-> NoEntry, globals |-> EmptyMap]

\* CompiledProgram::add_function
add_function(prog, func) ==
    [prog EXCEPT !.functions = Append(@, func),
                 !.entry = IF func.name = "main" THEN Len(prog.functions) ELSE @]

(***************************************************************************)
(* The bytecode compiler (vm/compiler.rs).  A BytecodeCompiler record cs   *)
(* carries program, current_function, locals and function_indices.         *)
(***************************************************************************)
BytecodeCompiler_new ==
    [program |-> CompiledProgram_new, current_function |-> CompiledFunction_new("", 0),
     locals |-> EmptyMap, function_indices |-> EmptyMap]

emit(cs, op) == [cs EXCEPT !.current_function.code = Append(@, op)]

current_offset(cs) == Len(cs.current_function.code)

constant_index(cs, value) ==
    CompiledFunction_constant_index(cs.current_function, value)

add_constant(cs, value) ==
    [cs EXCEPT !.current_function = CompiledFunction_add_constant(@, value)]

\* add_constant followed by emit(OpCode::Const(idx))
emit_const(cs, value) ==
    emit(add_constant(cs, value), Op1("Const", constant_index(cs, value)))

patch_jump(cs, jump_idx, target) ==
    [cs EXCEPT !.current_function.code[jump_idx + 1].a = target]

\* slot BytecodeCompiler::allocate_local returns for name
local_slot(cs, name) ==
    IF name \in DOMAIN cs.locals THEN cs.locals[name] ELSE cs.current_function.locals

allocate_local(cs, name) ==
    IF name \in DOMAIN cs.locals THEN cs
    ELSE [cs EXCEPT !.current_function.locals = @ + 1,
                    !.locals = MapPut(@, name, cs.current_function.locals)]

BinaryOpCode(op) ==
    CASE op = "NotEq" -> "Ne"
      [] op = "LtEq" -> "Le"
      [] op = "GtEq" -> "Ge"
      [] OTHER -> op

\* BytecodeCompiler::compile_pattern, for the patterns the ast has; the jump
\* it returns is the last instruction it emits
compile_pattern(cs, pattern) ==
    CASE pattern.p = "Wildcard" ->
           emit(emit_const(emit(cs, Op0("Pop")), Bool_(TRUE)), Op1("JumpIfFalse", 0))
      [] pattern.p = "Literal" ->
           emit(emit(emit_const(cs, pattern.lit), Op0("Eq")), Op1("JumpIfFalse", 0))
      [] pattern.p = "Identifier" ->
           emit(emit_const(emit(allocate_local(cs, pattern.name),
                                Op1("StoreLocal", local_slot(cs, pattern.name))),
                           Bool_(TRUE)),
                Op1("JumpIfFalse", 0))
      \* "For now, just check if it matches the constructor name"
      [] pattern.p = "Constructor" ->
           emit(emit(emit_const(cs, String_(pattern.name)), Op0("Eq")),
                Op1("JumpIfFalse", 0))

\* for jump in end_jumps { self.patch_jump(jump, after_decide) }
RECURSIVE patch_jumps(_, _, _, _)
patch_jumps(cs, jumps, i, target) ==
    IF i > Len(jumps) THEN cs
    ELSE patch_jumps(patch_jump(cs, jumps[i], target), jumps, i + 1, target)

RECURSIVE compile_expr(_, _), compile_exprs(_, _, _), compile_statement(_, _),
          compile_statements(_, _, _), compile_loop(_, _),
          compile_arms(_, _, _, _, _)

compile_expr(cs, expr) ==
    CASE expr.k = "Literal" -> emit_const(cs, expr.v)
      [] expr.k = "Identifier" ->
           IF expr.name \in DOMAIN cs.locals
           THEN emit(cs, Op1("LoadLocal", cs.locals[expr.name]))
           ELSE IF expr.name \in DOMAIN cs.function_indices
           THEN emit(cs, Op1("MakeClosure", cs.function_indices[expr.name]))
           ELSE emit(cs, OpN("LoadGlobal", expr.name))
      [] expr.k = "Binary" ->
           emit(compile_expr(compile_expr(cs, expr.left), expr.right),
                Op0(BinaryOpCode(expr.op)))
      [] expr.k = "Unary" -> emit(compile_expr(cs, expr.operand), Op0(expr.op))
      [] expr.k = "Call" ->
           LET c == compile_exprs(cs, expr.args, 1) IN
           IF expr.name = "print" THEN emit(c, Op0("Print"))
           ELSE IF expr.name = "toString" THEN emit(c, Op0("ToString"))
           ELSE IF expr.name = "len" THEN emit(c, Op0("Len"))
           ELSE IF expr.name \in DOMAIN cs.function_indices
           THEN emit(emit(c, Op1("MakeClosure", cs.function_indices[expr.name])),
                     Op1("Call", Len(expr.args)))
           ELSE emit(emit(c, OpN("LoadGlobal", expr.name)),
                     Op1("Call", Len(expr.args)))
      [] expr.k = "Okay" -> emit(compile_expr(cs, expr.inner), Op0("MakeOkay"))
      [] expr.k = "Oops" -> emit(compile_expr(cs, expr.inner), Op0("MakeOops"))
      [] expr.k = "Unwrap" -> emit(compile_expr(cs, expr.inner), Op0("TryUnwrap"))

compile_exprs(cs, exprs, i) ==
    IF i > Len(exprs) THEN cs
    ELSE compile_exprs(compile_expr(cs, exprs[i]), exprs, i + 1)

compile_statements(cs, stmts, i) ==
    IF i > Len(stmts) THEN cs
    ELSE compile_statements(compile_statement(cs, stmts[i]), stmts, i + 1)

compile_statement(cs, stmt) ==
    CASE stmt.k = "VarDecl" ->
           LET c == compile_expr(cs, stmt.value) IN
           emit(allocate_local(c, stmt.name), Op1("StoreLocal", local_slot(c, stmt.name)))
      [] stmt.k = "Assignment" ->
           LET c == compile_expr(cs, stmt.value) IN
           IF stmt.target \in DOMAIN c.locals
           THEN emit(c, Op1("StoreLocal", c.locals[stmt.target]))
           ELSE emit(c, OpN("StoreGlobal", stmt.target))
      [] stmt.k = "Return" -> emit(compile_expr(cs, stmt.value), Op0("Return"))
      [] stmt.k = "Conditional" ->
           LET c == compile_expr(cs, stmt.condition)
               jump_if_false == current_offset(c)
               t == compile_statements(emit(c, Op1("JumpIfFalse", 0)),
                                       stmt.then_branch, 1)
           IN IF stmt.has_else
              THEN LET jump_over_else == current_offset(t)
                       j == emit(t, Op1("Jump", 0))
                       e == compile_statements(
                                patch_jump(j, jump_if_false, current_offset(j)),
                                stmt.else_branch, 1)
                   IN patch_jump(e, jump_over_else, current_offset(e))
              ELSE patch_jump(t, jump_if_false, current_offset(t))
      [] stmt.k = "Loop" -> compile_loop(cs, stmt)
      [] stmt.k = "Decide" ->
           LET on_c(c) ==
                   compile_arms(emit(allocate_local(c, "__scrutinee__"),
                                     Op1("StoreLocal", local_slot(c, "__scrutinee__"))),
                                stmt.arms, 1, local_slot(c, "__scrutinee__"), <<>>)
           IN on_c(compile_expr(cs, stmt.scrutinee))
      [] stmt.k = "Expression" -> emit(compile_expr(cs, stmt.expr), Op0("Pop"))
      \* the reassurance is metadata; no handler is installed
      [] stmt.k = "AttemptBlock" -> compile_statements(cs, stmt.body, 1)
      \* "Consent is checked at runtime": the body is compiled in place
      [] stmt.k = "ConsentBlock" -> compile_statements(cs, stmt.body, 1)
      [] stmt.k = "Complain" ->
           emit(emit(emit_const(cs, String_(stmt.message)), Op0("MakeOops")),
                Op0("Return"))

\* the arms of a Decide from the i-th on; skip_jump is where compile_pattern
\* left off, end_jumps are the jumps that close the arms before
compile_arms(cs, arms, i, scrutinee_slot, end_jumps) ==
    IF i > Len(arms) THEN patch_jumps(cs, end_jumps, 1, current_offset(cs))
    ELSE LET on_p(p) ==
                 LET on_b(b) ==
                         compile_arms(
                             patch_jump(emit(b, Op1("Jump", 0)),
                                        current_offset(p) - 1, current_offset(b) + 1),
                             arms, i + 1, scrutinee_slot,
                             Append(end_jumps, current_offset(b)))
                 IN on_b(compile_statements(p, arms[i].body, 1))
         IN on_p(compile_pattern(emit(cs, Op1("LoadLocal", scrutinee_slot)),
                                 arms[i].pattern))

compile_loop(cs, loop_stmt) ==
    LET c == compile_expr(cs, loop_stmt.count)
        counter_slot == local_slot(c, "__counter__")
        s == emit(allocate_local(c, "__counter__"), Op1("StoreLocal", counter_slot))
        loop_start == current_offset(s)
        g == emit(emit_const(emit(s, Op1("LoadLocal", counter_slot)), Int_(0)),
                  Op0("Gt"))
        exit_jump == current_offset(g)
        b == compile_statements(emit(g, Op1("JumpIfFalse", 0)), loop_stmt.body, 1)
        d == emit(emit(emit_const(emit(b, Op1("LoadLocal", counter_slot)), Int_(1)),
                       Op0("Sub")),
                  Op1("StoreLocal", counter_slot))
        j == emit(d, Op1("Jump", loop_start))
    IN patch_jump(j, exit_jump, current_offset(j))

\* implicit return, unless the code already ends in Return
implicit_return(cs) ==
    LET code == cs.current_function.code IN
    IF Len(code) = 0 \/ code[Len(code)].op # "Return"
    THEN emit(emit_const(cs, Unit), Op0("Return"))
    ELSE cs

RECURSIVE param_locals(_, _, _)
param_locals(params, i, acc) ==
    IF i > Len(params) THEN acc
    ELSE param_locals(params, i + 1, MapPut(acc, params[i], i - 1))

\* self.current_function.take() then self.program.add_function(func)
finish_function(cs) ==
    [cs EXCEPT !.program = add_function(@, cs.current_function)]

compile_function(cs, func) ==
    LET c0 == [cs EXCEPT
                  !.current_function = CompiledFunction_new(func.name, Len(func.params)),
                  !.locals = param_locals(func.params, 1, EmptyMap)]
    IN finish_function(implicit_return(compile_statements(c0, func.body, 1)))

compile_item(cs, item) ==
    CASE item.k = "Function" -> compile_function(cs, item)
      [] item.k = "WorkerDef" ->
           finish_function(implicit_return(compile_statements(
               [cs EXCEPT !.current_function = CompiledFunction_new(item.name, 0),
                          !.locals = EmptyMap],
               item.body, 1)))
      [] item.k = "ConsentBlock" ->
           LET c0 == [cs EXCEPT
                         !.current_function =
                             CompiledFunction_new("__consent_" \o item.permission \o "__", 0),
                         !.locals = EmptyMap]
               b == compile_statements(c0, item.body, 1)
           IN finish_function(emit(emit_const(b, Unit), Op0("Return")))

\* first pass: idx = program.functions.len() + function_indices.len()
RECURSIVE register_functions(_, _, _)
register_functions(cs, items, i) ==
    IF i > Len(items) THEN cs
    ELSE register_functions(
             IF items[i].k = "Function"
             THEN [cs EXCEPT !.function_indices =
                      MapPut(@, items[i].name,
                             Len(cs.program.functions)
                               + Cardinality(DOMAIN cs.function_indices))]
             ELSE cs,
             items, i + 1)

RECURSIVE compile_items(_, _, _)
compile_items(cs, items, i) ==
    IF i > Len(items) THEN cs
    ELSE compile_items(compile_item(cs, items[i]), items, i + 1)

\* BytecodeCompiler::compile
compile(items) ==
    compile_items(register_functions(BytecodeCompiler_new, items, 1), items, 1).program

(***************************************************************************)
(* The virtual machine (vm/machine.rs).  The vm record carries stack,      *)
(* call_stack (frames with function_idx, ip, base_ptr), globals, and the   *)
(* progress of run(): status "running", "done" (Ok(result)), "error"       *)
(* (Err(VMError{message})) or "panic" (the process aborts).  out is what   *)
(* Print wrote.                                                            *)
(*                                                                         *)
(* VirtualMachine::new sets max_stack_size to 10000 and max_call_depth to  *)
(* 1000 (machine.rs:45-46); the model keeps both limits and scales them    *)
(* down so that programs of a few statements reach them.                   *)
(***************************************************************************)
max_stack_size == 6
max_call_depth == 3

\* A usize that wrapped below zero is kept as the negative number n that
\* stands for 2^64 + n: an index no Vec reaches.
wrapped(idx) == idx < 0

VirtualMachine_new(prog) ==
    [stack |-> <<>>, call_stack |-> <<>>, globals |-> prog.globals,
     status |-> "running", message |-> "", out |-> <<>>, result |-> Unit]

VMError(m, message) == [m EXCEPT !.status = "error", !.message = message]

VMPanic(m, message) == [m EXCEPT !.status = "panic", !.message = message]

push(m, value) ==
    IF Len(m.stack) >= max_stack_size THEN VMError(m, "Stack overflow")
    ELSE [m EXCEPT !.stack = Append(@, value)]

\* the stack without its top n values
drop(stack, n) == SubSeq(stack, 1, Len(stack) - n)

peek(m) == m.stack[Len(m.stack)]

get_function(prog, idx) == prog.functions[idx + 1]

has_function(prog, idx) == idx >= 0 /\ idx < Len(prog.functions)

RECURSIVE push_units(_, _)
push_units(stack, n) == IF n <= 0 THEN stack ELSE push_units(Append(stack, Unit), n - 1)

vm_call_function(m, prog, func_idx, arg_count, checks) ==
    IF Len(m.call_stack) >= max_call_depth
    THEN VMError(m, "Maximum call depth exceeded")
    ELSE IF ~has_function(prog, func_idx) THEN VMError(m, "Function not found")
    ELSE LET func == get_function(prog, func_idx) IN
    IF arg_count # func.arity THEN VMError(m, "Function expects other arguments")
    \* self.stack.len() - arg_count on usize
    ELSE IF Len(m.stack) < arg_count /\ checks
    THEN VMPanic(m, "attempt to subtract with overflow")
    ELSE LET base_ptr == Len(m.stack) - arg_count
             frame == [function_idx |-> func_idx, ip |-> 0, base_ptr |-> base_ptr]
         IN [m EXCEPT !.stack = push_units(@, func.locals - func.arity),
                      !.call_stack = Append(@, frame)]

\* result of a two-operand instruction on a (below) and b (top)
binary_instruction(op, a, b) ==
    LET ok(v) == [tag |-> "ok", v |-> v, err |-> ""]
        bad(e) == [tag |-> "err", v |-> Unit, err |-> e]
        ints == a.t = "Int" /\ b.t = "Int"
    IN CASE op = "Add" ->
              IF ints THEN ok(Int_(a.i + b.i))
              ELSE IF a.t = "String" /\ b.t = "String" THEN ok(String_(a.s \o b.s))
              ELSE bad("Cannot add")
         [] op = "Sub" -> IF ints THEN ok(Int_(a.i - b.i)) ELSE bad("Cannot subtract")
         [] op = "Mul" -> IF ints THEN ok(Int_(a.i * b.i)) ELSE bad("Cannot multiply")
         [] op = "Div" ->
              IF ints THEN IF b.i = 0 THEN bad("Division by zero")
                           ELSE ok(Int_(TruncDiv(a.i, b.i)))
              ELSE bad("Cannot divide")
         [] op = "Mod" ->
              IF ints
              THEN IF b.i = 0
                   THEN [tag |-> "panic", v |-> Unit,
                         err |-> "attempt to calculate the remainder with a divisor of zero"]
                   ELSE ok(Int_(TruncRem(a.i, b.i)))
              ELSE bad("Modulo requires integers")
         [] op = "Eq" -> ok(Bool_(a = b))
         [] op = "Ne" -> ok(Bool_(a # b))
         [] op = "Lt" -> ok(Bool_(ints /\ a.i < b.i))
         [] op = "Le" -> ok(Bool_(ints /\ a.i <= b.i))
         [] op = "Gt" -> ok(Bool_(ints /\ a.i > b.i))
         [] op = "Ge" -> ok(Bool_(ints /\ a.i >= b.i))
         [] op = "And" -> ok(Bool_(is_truthy(a) /\ is_truthy(b)))
         [] op = "Or" -> ok(Bool_(is_truthy(a) \/ is_truthy(b)))
         [] op = "Concat" -> ok(String_(to_string(a) \o to_string(b)))

BinaryInstructions ==
    {"Add", "Sub", "Mul", "Div", "Mod", "Eq", "Ne", "Lt", "Le", "Gt", "Ge",
     "And", "Or", "Concat"}

\* Return and the implicit return at the end of the code
return_from_frame(m) ==
    LET return_value == IF Len(m.stack) = 0 THEN Unit ELSE peek(m)
        rest == IF Len(m.stack) = 0 THEN m.stack ELSE drop(m.stack, 1)
        frame == m.call_stack[Len(m.call_stack)]
        \* self.stack.truncate(frame.base_ptr)
        kept == IF ~wrapped(frame.base_ptr) /\ frame.base_ptr < Len(rest)
                THEN SubSeq(rest, 1, frame.base_ptr)
                ELSE rest
    IN [m EXCEPT !.call_stack = drop(@, 1), !.stack = Append(kept, return_value)]

execute_instruction(m, prog, checks) ==
    LET frame == m.call_stack[Len(m.call_stack)]
        func == get_function(prog, frame.function_idx)
    IN IF frame.ip >= Len(func.code) THEN return_from_frame(m)
    ELSE
    LET instruction == func.code[frame.ip + 1]
        op == instruction.op
        \* frame.ip += 1
        m1 == [m EXCEPT !.call_stack[Len(m.call_stack)].ip = @ + 1]
        n == Len(m1.stack)
        underflow == VMError([m1 EXCEPT !.stack = <<>>], "Stack underflow")
        top == m1.stack[n]
        popped == [m1 EXCEPT !.stack = drop(@, 1)]
        jump(mm, target) == [mm EXCEPT !.call_stack[Len(mm.call_stack)].ip = target]
    IN CASE op = "Const" ->
              IF instruction.a >= Len(func.constants)
              THEN VMError(m1, "Constant not found")
              ELSE push(m1, func.constants[instruction.a + 1])
         [] op = "Pop" -> IF n = 0 THEN m1 ELSE popped
         [] op = "Dup" -> IF n = 0 THEN underflow ELSE push(m1, top)
         [] op = "Swap" ->
              IF n >= 2
              THEN [m1 EXCEPT !.stack = Append(Append(drop(@, 2), top), m1.stack[n - 1])]
              ELSE m1
         [] op = "LoadLocal" ->
              LET idx == frame.base_ptr + instruction.a IN
              push(m1, IF ~wrapped(idx) /\ idx < n THEN m1.stack[idx + 1] ELSE Unit)
         [] op = "StoreLocal" ->
              IF n = 0 THEN underflow
              ELSE LET idx == frame.base_ptr + instruction.a
                       s == popped.stack
                   IN \* while self.stack.len() <= idx { self.stack.push(Unit) }
                      IF wrapped(idx) THEN VMPanic(popped, "capacity overflow")
                      ELSE [popped EXCEPT !.stack =
                               [push_units(s, idx + 1 - Len(s)) EXCEPT ![idx + 1] = top]]
         [] op = "LoadGlobal" ->
              push(m1, IF instruction.name \in DOMAIN m1.globals
                       THEN m1.globals[instruction.name] ELSE Unit)
         [] op = "StoreGlobal" ->
              IF n = 0 THEN underflow
              ELSE [popped EXCEPT !.globals = MapPut(@, instruction.name, top)]
         [] op \in BinaryInstructions ->
              IF n < 2 THEN underflow
              ELSE LET r == binary_instruction(op, m1.stack[n - 1], top)
                       rest == [m1 EXCEPT !.stack = drop(@, 2)]
                   IN IF r.tag = "ok" THEN push(rest, r.v)
                      ELSE IF r.tag = "err" THEN VMError(rest, r.err)
                      ELSE VMPanic(rest, r.err)
         [] op = "Neg" ->
              IF n = 0 THEN underflow
              ELSE IF top.t = "Int" THEN push(popped, Int_(-top.i))
              ELSE VMError(popped, "Cannot negate non-numeric value")
         [] op = "Not" ->
              IF n = 0 THEN underflow ELSE push(popped, Bool_(~is_truthy(top)))
         [] op = "Jump" -> jump(m1, instruction.a)
         [] op = "JumpIfFalse" ->
              IF n = 0 THEN underflow
              ELSE IF ~is_truthy(top) THEN jump(popped, instruction.a) ELSE popped
         [] op = "JumpIfTrue" ->
              IF n = 0 THEN underflow
              ELSE IF is_truthy(top) THEN jump(popped, instruction.a) ELSE popped
         [] op = "Call" ->
              IF n = 0 THEN underflow
              ELSE IF top.t = "Int"
              THEN vm_call_function(popped, prog, top.i, instruction.a, checks)
              ELSE VMError(popped, "Cannot call non-function value")
         [] op = "Return" -> return_from_frame(m1)
         [] op = "MakeClosure" -> push(m1, Int_(instruction.a))
         [] op = "Len" ->
              IF n = 0 THEN underflow
              ELSE push(popped, Int_(IF top.t = "String" THEN Len(top.s) ELSE 0))
         [] op = "MakeOkay" -> IF n = 0 THEN underflow ELSE push(popped, Okay_(top))
         [] op = "MakeOops" ->
              IF n = 0 THEN underflow
              ELSE push(popped, Oops_(IF top.t = "String" THEN top.s ELSE to_string(top)))
         [] op = "TryUnwrap" ->
              IF n = 0 THEN underflow
              ELSE IF top.t = "Okay" THEN push(popped, top.ok)
              \* the Oops goes back on the stack and the frame jumps to its end
              ELSE IF top.t = "Oops" THEN jump(m1, Len(func.code))
              ELSE push(popped, top)
         [] op = "IsOkay" -> IF n = 0 THEN underflow ELSE push(m1, Bool_(is_okay(top)))
         [] op = "Print" ->
              IF n = 0 THEN underflow
              ELSE [popped EXCEPT !.out = Append(@, to_string(top))]
         [] op = "ToString" ->
              IF n = 0 THEN underflow ELSE push(popped, String_(to_string(top)))
         [] op = "Nop" -> m1
         [] op = "Halt" -> [m1 EXCEPT !.call_stack = <<>>]

\* VirtualMachine::run up to the instruction loop
vm_run_start(prog, checks) ==
    IF prog.entry = NoEntry
    THEN VMError(VirtualMachine_new(prog), "No main function found")
    ELSE vm_call_function(VirtualMachine_new(prog), prog, prog.entry, 0, checks)

\* VirtualMachine::run after the loop: Ok(self.stack.pop().unwrap_or(Unit))
vm_run_finish(m) ==
    [m EXCEPT !.status = "done",
              !.result = IF Len(m.stack) = 0 THEN Unit ELSE peek(m),
              !.stack = IF Len(@) = 0 THEN @ ELSE drop(@, 1)]

(***************************************************************************)
(* The optimizer (vm/optimizer.rs): constant folding, peephole rewriting   *)
(* and dead code elimination, each followed by remove_nops.                *)
(***************************************************************************)
Nop == Op0("Nop")

IsJump(op) == op.op \in {"Jump", "JumpIfFalse", "JumpIfTrue"}

\* remove_nops: retarget the jumps, then drop the Nops
remove_nops(func) ==
    LET code == func.code
        \* new_indices[old]: instructions other than Nop before old
        new_index(old) == Cardinality({j \in 1..old : code[j].op # "Nop"})
        retarget(op) ==
            IF IsJump(op) /\ op.a < Len(code) THEN [op EXCEPT !.a = new_index(op.a)]
            ELSE op
    IN [func EXCEPT !.code =
           SelectSeq([j \in 1..Len(code) |-> retarget(code[j])],
                     LAMBDA op : op.op # "Nop")]

\* fold_div without the guard on the divisor
fold_value_any_divisor(op, a, b) ==
    IF op = "Div" /\ a.t = "Int" /\ b.t = "Int"
    THEN [some |-> TRUE, v |-> Int_(IF b.i = 0 THEN 0 ELSE TruncDiv(a.i, b.i))]
    ELSE [some |-> FALSE, v |-> Unit]

\* fold_add .. fold_ge and the Eq/Ne/And/Or arms: some = FALSE is None
fold_value(op, a, b) ==
    LET some(v) == [some |-> TRUE, v |-> v]
        none == [some |-> FALSE, v |-> Unit]
        ints == a.t = "Int" /\ b.t = "Int"
    IN CASE op = "Add" ->
              IF ints THEN some(Int_(a.i + b.i))
              ELSE IF a.t = "String" /\ b.t = "String" THEN some(String_(a.s \o b.s))
              ELSE none
         [] op = "Sub" -> IF ints THEN some(Int_(a.i - b.i)) ELSE none
         [] op = "Mul" -> IF ints THEN some(Int_(a.i * b.i)) ELSE none
         [] op = "Div" ->
              IF ints /\ b.i # 0 THEN some(Int_(TruncDiv(a.i, b.i))) ELSE none
         [] op = "Eq" -> some(Bool_(a = b))
         [] op = "Ne" -> some(Bool_(a # b))
         [] op = "Lt" -> IF ints THEN some(Bool_(a.i < b.i)) ELSE none
         [] op = "Le" -> IF ints THEN some(Bool_(a.i <= b.i)) ELSE none
         [] op = "Gt" -> IF ints THEN some(Bool_(a.i > b.i)) ELSE none
         [] op = "Ge" -> IF ints THEN some(Bool_(a.i >= b.i)) ELSE none
         [] op = "And" -> some(Bool_(is_truthy(a) /\ is_truthy(b)))
         [] op = "Or" -> some(Bool_(is_truthy(a) \/ is_truthy(b)))
         [] OTHER -> none

\* one iteration of the loop of fold_constants, at instruction i (from 0)
fold_at(func, i) ==
    LET code == func.code
        x == code[i + 1]
        y == code[i + 2]
        z == code[i + 3]
    IN IF x.op = "Const" /\ y.op = "Const"
          /\ x.a < Len(func.constants) /\ y.a < Len(func.constants)
       THEN LET result == fold_value(z.op, func.constants[x.a + 1],
                                     func.constants[y.a + 1])
            IN IF result.some
               THEN [CompiledFunction_add_constant(func, result.v) EXCEPT
                        !.code[i + 1] =
                            Op1("Const", CompiledFunction_constant_index(func, result.v)),
                        !.code[i + 2] = Nop,
                        !.code[i + 3] = Nop]
               ELSE func
       ELSE func

RECURSIVE fold_loop(_, _)
fold_loop(func, i) ==
    IF i + 2 < Len(func.code) THEN fold_loop(fold_at(func, i), i + 1) ELSE func

fold_constants(func) == remove_nops(fold_loop(func, 0))

\* one iteration of the loop of peephole_optimize, at instruction i (from 0)
peephole_at(func, i) ==
    LET has_next(f) == i + 1 < Len(f.code)
        pair(f, a, b) == has_next(f) /\ f.code[i + 1].op = a /\ f.code[i + 2].op = b
        \* (Dup, Pop), (Not, Not), (Neg, Neg)
        f1 == IF pair(func, "Dup", "Pop") \/ pair(func, "Not", "Not")
                 \/ pair(func, "Neg", "Neg")
              THEN [func EXCEPT !.code[i + 1] = Nop, !.code[i + 2] = Nop]
              ELSE func
        \* jump to the next instruction
        f2 == IF f1.code[i + 1].op = "Jump" /\ f1.code[i + 1].a = i + 1
              THEN [f1 EXCEPT !.code[i + 1] = Nop]
              ELSE f1
        c == f2.code[i + 1]
        known == has_next(f2) /\ c.op = "Const" /\ c.a < Len(f2.constants)
        k == f2.constants[c.a + 1]
    IN IF known /\ k = Bool_(TRUE) /\ f2.code[i + 2].op = "JumpIfFalse"
       THEN [f2 EXCEPT !.code[i + 1] = Nop, !.code[i + 2] = Nop]
       ELSE IF known /\ k = Bool_(FALSE) /\ f2.code[i + 2].op = "JumpIfFalse"
       THEN [f2 EXCEPT !.code[i + 1] = Nop,
                       !.code[i + 2] = Op1("Jump", f2.code[i + 2].a)]
       ELSE f2

RECURSIVE peephole_loop(_, _)
peephole_loop(func, i) ==
    IF i < Len(func.code) THEN peephole_loop(peephole_at(func, i), i + 1) ELSE func

peephole_optimize(func) == remove_nops(peephole_loop(func, 0))

\* instructions control can pass to from instruction idx (from 0)
successors(code, idx) ==
    LET op == code[idx + 1] IN
    CASE op.op = "Jump" -> {op.a}
      [] op.op \in {"JumpIfFalse", "JumpIfTrue"} -> {op.a, idx + 1}
      [] op.op \in {"Return", "Halt"} -> {}
      [] OTHER -> {idx + 1}

\* the instructions the worklist of eliminate_dead_code marks
RECURSIVE reachable_from(_, _)
reachable_from(code, marked) ==
    LET more == {t \in UNION {successors(code, idx) : idx \in marked} :
                     t < Len(code)}
    IN IF more \subseteq marked THEN marked
       ELSE reachable_from(code, marked \cup more)

eliminate_dead_code(func) ==
    IF Len(func.code) = 0 THEN func
    ELSE LET reachable == reachable_from(func.code, {0}) IN
         remove_nops([func EXCEPT !.code =
             [j \in 1..Len(func.code) |->
                 IF (j - 1) \in reachable THEN func.code[j] ELSE Nop]])

optimize_function(func) == eliminate_dead_code(peephole_optimize(fold_constants(func)))

\* Optimizer::optimize with the passes Optimizer::new enables
optimize(prog) ==
    [prog EXCEPT !.functions = [j \in 1..Len(@) |-> optimize_function(@[j])]]

(***************************************************************************)
(* Source programs.  A catalogue of small programs, followed by every      *)
(* program  to main() { give back e; }  for e a binary operation on two    *)
(* literals or two stacked unary operations on a literal.                  *)
(***************************************************************************)
Main(body) == FunctionDef("main", <<>>, body)

I0 == Literal(Int_(0))
I1 == Literal(Int_(1))
I2 == Literal(Int_(2))

\* what a consent body of the catalogue prints, and nothing else prints it
ConsentMarker(permission) == "inside " \o permission

Marked(permission) ==
    Expression(Call("print", <<Literal(String_(ConsentMarker(permission)))>>))

Permissions == {"net", "disk"}

Catalogue == <<
    \* remember x = 1; remember y = 2; give back x + y;
    <<Main(<<VarDecl("x", I1), VarDecl("y", I2),
             Return(Binary("Add", Identifier("x"), Identifier("y")))>>)>>,
    \* to double(n) { give back n * 2; }  to main() { give back double(1); }
    <<FunctionDef("double", <<"n">>, <<Return(Binary("Mul", Identifier("n"), I2))>>),
      Main(<<Return(Call("double", <<I1>>))>>)>>,
    \* attempt safely { give back 1 / 0; } or reassure "ok";  give back 2;
    <<Main(<<AttemptBlock(<<Return(Binary("Div", I1, I0))>>), Return(I2)>>)>>,
    \* remember x = 1; attempt safely { remember x = 2; } ...; give back x;
    <<Main(<<VarDecl("x", I1), AttemptBlock(<<VarDecl("x", I2)>>),
             Return(Identifier("x"))>>)>>,
    \* remember x = 1; when false { give back 2; }
    <<Main(<<VarDecl("x", I1),
             Conditional(Literal(Bool_(FALSE)), <<Return(I2)>>, FALSE, <<>>)>>)>>,
    \* remember x = 0; repeat 2 times { x = x + 1; } give back x;
    <<Main(<<VarDecl("x", I0),
             Loop(I2, <<Assignment("x", Binary("Add", Identifier("x"), I1))>>),
             Return(Identifier("x"))>>)>>,
    \* only if okay "net" { print("inside net"); }  give back 1;
    <<Main(<<ConsentBlock("net", <<Marked("net")>>), Return(I1)>>)>>,
    \* two blocks for "net" and one for "disk": the second "net" uses the cache
    <<Main(<<ConsentBlock("net", <<Marked("net")>>),
             ConsentBlock("disk", <<Marked("disk")>>),
             ConsentBlock("net", <<Marked("net")>>), Return(I1)>>)>>,
    \* a top-level consent block before main
    <<ConsentBlock("net", <<Marked("net")>>), Main(<<Return(I1)>>)>>,
    \* to f(n) { remember a = n; remember b = n; remember c = n; give back f(n); }
    <<FunctionDef("f", <<"n">>,
          <<VarDecl("a", Identifier("n")), VarDecl("b", Identifier("n")),
            VarDecl("c", Identifier("n")), Return(Call("f", <<Identifier("n")>>))>>),
      Main(<<Return(Call("f", <<I1>>))>>)>>,
    \* to g() { give back g(); }
    <<FunctionDef("g", <<>>, <<Return(Call("g", <<>>))>>),
      Main(<<Return(Call("g", <<>>))>>)>>,
    \* to id(n) { give back n; }  to main() { give back id(print(1)); }
    <<FunctionDef("id", <<"n">>, <<Return(Identifier("n"))>>),
      Main(<<Return(Call("id", <<Call("print", <<I1>>)>>))>>)>>,
    \* complain "bad"; give back 1;
    <<Main(<<Complain("bad"), Return(I1)>>)>>,
    \* give back Okay(1)?;  and  give back Oops("e")?;
    <<Main(<<Return(Unwrap(OkayExpr(I1)))>>)>>,
    <<Main(<<Return(Unwrap(OopsExpr(Literal(String_("e")))))>>)>>,
    \* to f() { when false { give back 2; } }  to main() { give back 1 + f(); }
    <<FunctionDef("f", <<>>,
          <<Conditional(Literal(Bool_(FALSE)), <<Return(I2)>>, FALSE, <<>>)>>),
      Main(<<Return(Binary("Add", I1, Call("f", <<>>)))>>)>>,
    \* to f() { give back 1 / 0; }
    \* to main() { attempt safely { f(); } or reassure "ok";  give back 2; }
    <<FunctionDef("f", <<>>, <<Return(Binary("Div", I1, I0))>>),
      Main(<<AttemptBlock(<<Expression(Call("f", <<>>))>>), Return(I2)>>)>>,
    \* remember x = 1; when true { remember x = 2; } give back x;
    <<Main(<<VarDecl("x", I1),
             Conditional(Literal(Bool_(TRUE)), <<VarDecl("x", I2)>>, FALSE, <<>>),
             Return(Identifier("x"))>>)>>,
    \* remember x = 1; repeat 1 times { remember x = 2; } give back x;
    <<Main(<<VarDecl("x", I1), Loop(I1, <<VarDecl("x", I2)>>),
             Return(Identifier("x"))>>)>>,
    \* remember x = 0; repeat 2 times { repeat 2 times { x = x + 1; } } give back x;
    <<Main(<<VarDecl("x", I0),
             Loop(I2, <<Loop(I2, <<Assignment("x",
                                     Binary("Add", Identifier("x"), I1))>>)>>),
             Return(Identifier("x"))>>)>>,
    \* remember f = || { give back 1 / 0; };  remember y = 2;
    \* attempt safely { f(); } or reassure "ok";  give back y;
    <<Main(<<VarDecl("f", Lambda(<<>>, LambdaBody_Block(
                                          <<Return(Binary("Div", I1, I0))>>))),
             VarDecl("y", I2),
             AttemptBlock(<<Expression(Call("f", <<>>))>>),
             Return(Identifier("y"))>>)>>,
    \* remember x = 1;  remember f = || { x = 2; give back 1 / 0; };
    \* attempt safely { f(); } or reassure "ok";  give back x;
    <<Main(<<VarDecl("x", I1),
             VarDecl("f", Lambda(<<>>, LambdaBody_Block(
                                          <<Assignment("x", I2),
                                            Return(Binary("Div", I1, I0))>>))),
             AttemptBlock(<<Expression(Call("f", <<>>))>>),
             Return(Identifier("x"))>>)>>,
    \* remember x = 1;  remember f = |n| { x = n; remember y = n; give back x; };
    \* f(2);  give back x;
    <<Main(<<VarDecl("x", I1),
             VarDecl("f", Lambda(<<"n">>, LambdaBody_Block(
                                          <<Assignment("x", Identifier("n")),
                                            VarDecl("y", Identifier("n")),
                                            Return(Identifier("x"))>>))),
             Expression(Call("f", <<I2>>)),
             Return(Identifier("x"))>>)>>,
    \* remember x = 1;  remember f = || -> x;  x = 2;  give back (f)();
    <<Main(<<VarDecl("x", I1),
             VarDecl("f", Lambda(<<>>, LambdaBody_Expr(Identifier("x")))),
             Assignment("x", I2),
             Return(CallExpr(Identifier("f"), <<>>))>>)>>,
    \* give back false and (1 / 0 == 1);   and   give back true or (1 / 0 == 1);
    <<Main(<<Return(Binary("And", Literal(Bool_(FALSE)),
                           Binary("Eq", Binary("Div", I1, I0), I1)))>>)>>,
    <<Main(<<Return(Binary("Or", Literal(Bool_(TRUE)),
                           Binary("Eq", Binary("Div", I1, I0), I1)))>>)>>,
    \* decide based on 1 { 0 -> { give back 0; } 1 -> { give back 1; }
    \*                     _ -> { give back 2; } }  give back 0;
    <<Main(<<Decide(I1, <<MatchArm(Pattern_Literal(Int_(0)), <<Return(I0)>>),
                          MatchArm(Pattern_Literal(Int_(1)), <<Return(I1)>>),
                          MatchArm(Pattern_Wildcard, <<Return(I2)>>)>>),
             Return(I0)>>)>>,
    \* decide based on 2 { 0 -> { give back 0; } }  give back 1;
    <<Main(<<Decide(I2, <<MatchArm(Pattern_Literal(Int_(0)), <<Return(I0)>>)>>),
             Return(I1)>>)>>,
    \* decide based on Okay(1) { Okay(n) -> { give back n; } _ -> { give back 2; } }
    <<Main(<<Decide(OkayExpr(I1),
                    <<MatchArm(Pattern_Constructor("Okay", TRUE, Pattern_Identifier("n")),
                               <<Return(Identifier("n"))>>),
                      MatchArm(Pattern_Wildcard, <<Return(I2)>>)>>),
             Return(I0)>>)>>,
    \* remember x = 1;  decide based on 2 { x -> { } }  give back x;
    <<Main(<<VarDecl("x", I1),
             Decide(I2, <<MatchArm(Pattern_Identifier("x"), <<>>)>>),
             Return(Identifier("x"))>>)>>,
    \* give back unwrapOr(Okay(1), 2);  unwrapOr(Oops("e"), 2);  unwrapOr(0, 2);
    <<Main(<<Return(Call("unwrapOr", <<OkayExpr(I1), I2>>))>>)>>,
    <<Main(<<Return(Call("unwrapOr", <<OopsExpr(Literal(String_("e"))), I2>>))>>)>>,
    <<Main(<<Return(Call("unwrapOr", <<I0, I2>>))>>)>>,
    \* give back (1 + 2) + 1;
    <<Main(<<Return(Binary("Add", Binary("Add", I1, I2), I1))>>)>>,
    \* only if okay "net" { print("inside net"); }
    \* to f() { give back 1; }  to main() { give back f(); }
    <<ConsentBlock("net", <<Marked("net")>>),
      FunctionDef("f", <<>>, <<Return(I1)>>),
      Main(<<Return(Call("f", <<>>))>>)>>,
    \* worker w { remember a = 0; }
    \* to f() { give back 1; }  to main() { give back f(); }
    <<WorkerDef("w", <<VarDecl("a", I0)>>),
      FunctionDef("f", <<>>, <<Return(I1)>>),
      Main(<<Return(Call("f", <<>>))>>)>>,
    \* remember x = 1; print(2); give back x;
    <<Main(<<VarDecl("x", I1), Expression(Call("print", <<I2>>)),
             Return(Identifier("x"))>>)>>
>>

\* the programs of the catalogue that evaluate a lambda; Interpreter::run gets
\* them as syntax trees, parser/mod.rs builds no Expr::Lambda
ClosurePrograms == 21..24

Lits == <<Int_(0), Int_(1), String_("a"), Bool_(TRUE)>>

BinaryOps == <<"Add", "Sub", "Mul", "Div", "Mod", "Eq", "NotEq", "Lt", "Gt",
               "LtEq", "GtEq", "And", "Or">>

UnaryOps == <<"Neg", "Not">>

NumBinary == Len(BinaryOps) * Len(Lits) * Len(Lits)

NumUnary == Len(UnaryOps) * Len(UnaryOps) * Len(Lits)

\* the n-th binary expression on literals, n from 0
BinaryExpr(n) ==
    Binary(BinaryOps[(n \div (Len(Lits) * Len(Lits))) + 1],
           Literal(Lits[((n \div Len(Lits)) % Len(Lits)) + 1]),
           Literal(Lits[(n % Len(Lits)) + 1]))

\* the n-th stack of two unary operations on a literal, n from 0
UnaryExpr(n) ==
    Unary(UnaryOps[(n \div (Len(UnaryOps) * Len(Lits))) + 1],
          Unary(UnaryOps[((n \div Len(Lits)) % Len(UnaryOps)) + 1],
                Literal(Lits[(n % Len(Lits)) + 1])))

NumPrograms == Len(Catalogue) + NumBinary + NumUnary

\* the items of source program p, p in 1..NumPrograms
Program(p) ==
    IF p <= Len(Catalogue) THEN Catalogue[p]
    ELSE IF p <= Len(Catalogue) + NumBinary
    THEN <<Main(<<Return(BinaryExpr(p - Len(Catalogue) - 1))>>)>>
    ELSE <<Main(<<Return(UnaryExpr(p - Len(Catalogue) - NumBinary - 1))>>)>>

\* what the user types at the consent prompts
StdinChoices == {<<>>, <<"y">>, <<"n">>, <<"y", "n">>, <<"n", "y">>}

(***************************************************************************)
(* SpecExec: one source program goes through Interpreter::run, then        *)
(* through BytecodeCompiler::compile and VirtualMachine::run on the        *)
(* bytecode as compiled, then through Optimizer::optimize and              *)
(* VirtualMachine::run again, as run_vm does (vm/mod.rs:20-42).  The       *)
(* interpreter and both VM runs read the same stdin.                       *)
(***************************************************************************)
NoOutcome == [tag |-> "none", v |-> Unit, err |-> "", out |-> <<>>,
              consent_cache |-> EmptyMap, scopes |-> 1]

\* the registry is not exercised while a program executes
RegistryIdle ==
    /\ capabilities = [s \in Scopes |-> <<>>]
    /\ audit_log = <<>>
    /\ interactive = TRUE
    /\ default_consent = FALSE
    /\ now = 0
    /\ last_op = NoOp
    /\ op_count = 0

ExecInit ==
    /\ RegistryIdle
    /\ StoreIdle
    /\ ChanIdle
    /\ source \in 1..NumPrograms
    /\ overflow_checks \in BOOLEAN
    /\ stdin \in StdinChoices
    /\ phase = "start"
    /\ interp = NoOutcome
    /\ program = CompiledProgram_new
    /\ vm = VirtualMachine_new(CompiledProgram_new)
    /\ raw = VirtualMachine_new(CompiledProgram_new)

\* what is kept of a run of the interpreter: its result, what it printed and
\* the depth of self.env.scopes it ends with
outcome(r) ==
    [tag |-> r.tag, v |-> r.v, err |-> r.err, out |-> r.I.out,
     consent_cache |-> r.I.consent_cache, scopes |-> Len(r.I.env)]

\* Interpreter::new() and Interpreter::run(program)
Interpret ==
    /\ phase = "start"
    /\ interp' = outcome(Interpreter_run(Program(source), stdin))
    /\ phase' = "interpreted"
    /\ UNCHANGED <<source, overflow_checks, stdin, program, vm, raw>>
    /\ UNCHANGED <<reg_vars, store_vars, chan_vars>>

\* BytecodeCompiler::new() and compile(program); compile_expr has no arm for
\* Expr::Lambda and Expr::CallExpr, so only the interpreter runs closures
Compile ==
    /\ phase = "interpreted"
    /\ source \notin ClosurePrograms
    /\ program' = compile(Program(source))
    /\ phase' = "compiled"
    /\ UNCHANGED <<source, overflow_checks, stdin, interp, vm, raw>>
    /\ UNCHANGED <<reg_vars, store_vars, chan_vars>>

\* VirtualMachine::new(program) and run() up to its instruction loop
Load ==
    /\ phase \in {"compiled", "optimized"}
    /\ vm' = vm_run_start(program, overflow_checks)
    /\ phase' = IF phase = "compiled" THEN "running_raw" ELSE "running_opt"
    /\ UNCHANGED <<source, overflow_checks, stdin, interp, program, raw>>
    /\ UNCHANGED <<reg_vars, store_vars, chan_vars>>

Running == phase \in {"running_raw", "running_opt"} /\ vm.status = "running"

\* one iteration of: while !self.call_stack.is_empty() { execute_instruction()? }
Step ==
    /\ Running
    /\ Len(vm.call_stack) > 0
    /\ vm' = execute_instruction(vm, program, overflow_checks)
    /\ UNCHANGED <<source, overflow_checks, stdin, phase, interp, program, raw>>
    /\ UNCHANGED <<reg_vars, store_vars, chan_vars>>

\* the loop is over: Ok(self.stack.pop().unwrap_or(Value::Unit))
Finish ==
    /\ Running
    /\ Len(vm.call_stack) = 0
    /\ vm' = vm_run_finish(vm)
    /\ UNCHANGED <<source, overflow_checks, stdin, phase, interp, program, raw>>
    /\ UNCHANGED <<reg_vars, store_vars, chan_vars>>

\* Optimizer::new().optimize(&mut compiled), once the run on the bytecode as
\* compiled is over and its outcome is kept in raw
Optimize ==
    /\ phase = "running_raw"
    /\ vm.status # "running"
    /\ raw' = vm
    /\ program' = optimize(program)
    /\ phase' = "optimized"
    /\ UNCHANGED <<source, overflow_checks, stdin, interp, vm>>
    /\ UNCHANGED <<reg_vars, store_vars, chan_vars>>

ExecNext ==
    \/ Interpret
    \/ Compile
    \/ Load
    \/ Step
    \/ Finish
    \/ Optimize

SpecExec == ExecInit /\ [][ExecNext]_vars

\* both VM runs are over
Done == phase = "running_opt" /\ vm.status # "running"

(***************************************************************************)
(* ConsentStore (security/consent.rs): consent decisions remembered in a   *)
(* map and in a text file, one record per line.                            *)
(***************************************************************************)
MaxStores == 1     \* ConsentStore::store calls in one behaviour

ConsentDurations == {"Session", "Day", "Week", "Forever", "Once"}

\* the scopes and capabilities handed to the store: plain names, a scope
\* that begins with the comment character and a capability that holds the
\* field separator; none holds a line break
StoreScopes == {"main", "#tmp"}

StoreCapabilities == {"net", "a|b"}

\* the instants SystemTime::now() is read at: a day and a week after 1,
\* and one second more than that after 0
ClockReadings == {0, 1, 86401, 604801}

\* ConsentDuration::to_seconds; max stands for u64::MAX
to_seconds(d) ==
    CASE d = "Session" -> [some |-> FALSE, max |-> FALSE, secs |-> 0]
      [] d = "Day"     -> [some |-> TRUE, max |-> FALSE, secs |-> 86400]
      [] d = "Week"    -> [some |-> TRUE, max |-> FALSE, secs |-> 604800]
      [] d = "Forever" -> [some |-> TRUE, max |-> TRUE, secs |-> 0]
      [] d = "Once"    -> [some |-> TRUE, max |-> FALSE, secs |-> 0]

StoredConsent(scope, capability, granted, timestamp, remember) ==
    [scope |-> scope, capability |-> capability, granted |-> granted,
     timestamp |-> timestamp, remember |-> remember]

\* format!("{}:{}", scope, capability)
consent_key(scope, capability) == scope \o ":" \o capability

\* ConsentStore::new
ConsentStore_new == EmptyMap

NoFile == [exists |-> FALSE, lines |-> <<>>]

\* the duration names of ConsentStore::save
duration_name(d) ==
    CASE d = "Session" -> "session"
      [] d = "Day"     -> "day"
      [] d = "Week"    -> "week"
      [] d = "Forever" -> "forever"
      [] d = "Once"    -> "once"

\* the format! of ConsentStore::save, without the line break
format_line(consent) ==
    consent.scope \o "|" \o consent.capability \o "|"
        \o (IF consent.granted THEN "yes" ELSE "no") \o "|"
        \o ToString(consent.timestamp) \o "|" \o duration_name(consent.remember)

Header == <<"# WokeLang Consent Storage",
            "# Format: scope|capability|granted|timestamp|duration",
            "">>

\* one line per value of the map; HashMap::values yields them in an
\* unspecified order, and a map has one value per key
RECURSIVE record_lines(_, _)
record_lines(store, keys) ==
    IF keys = {} THEN <<>>
    ELSE <<format_line(store[CHOOSE k \in keys : TRUE])>>
             \o record_lines(store, keys \ {CHOOSE k \in keys : TRUE})

\* ConsentStore::save: the file as content.lines() reads it back
save(store) == [exists |-> TRUE, lines |-> Header \o record_lines(store, DOMAIN store)]

char_at(s, i) == SubSeq(s, i, i)

\* str::split on one character
RECURSIVE split(_, _)
split(s, sep) ==
    IF \A i \in 1..Len(s) : char_at(s, i) # sep THEN <<s>>
    ELSE <<SubSeq(s, 1, (CHOOSE i \in 1..Len(s) :
                            /\ char_at(s, i) = sep
                            /\ \A j \in 1..(i - 1) : char_at(s, j) # sep) - 1)>>
         \o split(SubSeq(s, (CHOOSE i \in 1..Len(s) :
                                /\ char_at(s, i) = sep
                                /\ \A j \in 1..(i - 1) : char_at(s, j) # sep) + 1,
                         Len(s)), sep)

DecimalDigits == "0123456789"

is_digit(c) == \E d \in 1..Len(DecimalDigits) : char_at(DecimalDigits, d) = c

digit_value(c) == (CHOOSE d \in 1..Len(DecimalDigits) : char_at(DecimalDigits, d) = c) - 1

RECURSIVE digits_value(_)
digits_value(s) ==
    IF Len(s) = 0 THEN 0
    ELSE digits_value(SubSeq(s, 1, Len(s) - 1)) * 10 + digit_value(char_at(s, Len(s)))

\* str::parse::<u64>: decimal digits after an optional plus sign
parse_u64(s) ==
    IF Len(s) > 0 /\ char_at(s, 1) = "+" /\ Len(s) > 1
           /\ \A i \in 2..Len(s) : is_digit(char_at(s, i))
    THEN [ok |-> TRUE, n |-> digits_value(SubSeq(s, 2, Len(s)))]
    ELSE IF Len(s) > 0 /\ \A i \in 1..Len(s) : is_digit(char_at(s, i))
    THEN [ok |-> TRUE, n |-> digits_value(s)]
    ELSE [ok |-> FALSE, n |-> 0]

duration_of_name(name) ==
    CASE name = "session" -> "Session"
      [] name = "day"     -> "Day"
      [] name = "week"    -> "Week"
      [] name = "forever" -> "Forever"
      [] name = "once"    -> "Once"
      [] OTHER            -> "?"

NoConsent == [some |-> FALSE,
              consent |-> StoredConsent("", "", FALSE, 0, "Once")]

\* ConsentStore::parse_line
parse_line(line) ==
    IF Len(split(line, "|")) # 5 THEN NoConsent
    ELSE IF ~parse_u64(split(line, "|")[4]).ok THEN NoConsent
    ELSE IF duration_of_name(split(line, "|")[5]) = "?" THEN NoConsent
    ELSE [some |-> TRUE,
          consent |-> StoredConsent(split(line, "|")[1], split(line, "|")[2],
                                    split(line, "|")[3] = "yes",
                                    parse_u64(split(line, "|")[4]).n,
                                    duration_of_name(split(line, "|")[5]))]

\* line.trim().is_empty()
is_blank(line) == \A i \in 1..Len(line) : char_at(line, i) \in {" ", "\t"}

starts_with(line, c) == Len(line) > 0 /\ char_at(line, 1) = c

\* the body of the loop of ConsentStore::load
load_line(store, line) ==
    IF is_blank(line) \/ starts_with(line, "#") THEN store
    ELSE IF ~parse_line(line).some THEN store
    ELSE MapPut(store,
                consent_key(parse_line(line).consent.scope,
                            parse_line(line).consent.capability),
                parse_line(line).consent)

RECURSIVE load_lines(_, _, _)
load_lines(store, lines, i) ==
    IF i > Len(lines) THEN store
    ELSE load_lines(load_line(store, lines[i]), lines, i + 1)

\* ConsentStore::load
load(store, f) == IF ~f.exists THEN store ELSE load_lines(store, f.lines, 1)

\* now - consent.timestamp > duration_secs on u64: without overflow checks
\* a timestamp later than now wraps the difference to 2^64 - (timestamp -
\* now), which is more than a day or a week and not more than u64::MAX
elapsed_exceeds(now_secs, timestamp, duration) ==
    IF timestamp <= now_secs
    THEN ~duration.max /\ now_secs - timestamp > duration.secs
    ELSE ~duration.max

\* ConsentStore::check: "Some(true)", "Some(false)", "None", or "panic" when
\* the subtraction overflows in a build with overflow checks
check(store, scope, capability, now_secs, checks) ==
    IF consent_key(scope, capability) \notin DOMAIN store THEN "None"
    ELSE IF store[consent_key(scope, capability)].remember = "Once" THEN "None"
    ELSE IF ~to_seconds(store[consent_key(scope, capability)].remember).some
    THEN IF store[consent_key(scope, capability)].granted
         THEN "Some(true)" ELSE "Some(false)"
    ELSE IF store[consent_key(scope, capability)].timestamp > now_secs /\ checks
    THEN "panic"
    ELSE IF elapsed_exceeds(now_secs,
                            store[consent_key(scope, capability)].timestamp,
                            to_seconds(store[consent_key(scope, capability)].remember))
    THEN "None"
    ELSE IF store[consent_key(scope, capability)].granted
         THEN "Some(true)" ELSE "Some(false)"

\* the map after ConsentStore::revoke
remove_key(store, key) == [k \in DOMAIN store \ {key} |-> store[k]]

\* the map after ConsentStore::revoke_all
remove_scope(store, scope) ==
    [k \in {k \in DOMAIN store :
               ~(Len(k) >= Len(scope) + 1
                 /\ SubSeq(k, 1, Len(scope) + 1) = scope \o ":")} |-> store[k]]

NoAnswer == [scope |-> "", capability |-> "", result |-> "-"]

(***************************************************************************)
(* SpecConsent: a program stores, checks and revokes decisions in a        *)
(* ConsentStore with auto_save on (ConsentStore::new), while time passes   *)
(* and sessions follow one another on the same file.                      *)
(***************************************************************************)
ConsentInit ==
    /\ RegistryIdle
    /\ ChanIdle
    /\ source = 0
    /\ overflow_checks \in BOOLEAN
    /\ stdin = <<>>
    /\ phase = "idle"
    /\ interp = <<>>
    /\ program = <<>>
    /\ vm = <<>>
    /\ raw = <<>>
    /\ consents = ConsentStore_new
    /\ file = NoFile
    /\ clock = 1
    /\ answer = NoAnswer
    /\ store_ops = 0

\* ConsentStore::store
Store ==
    \E scope \in StoreScopes, capability \in StoreCapabilities,
       granted \in BOOLEAN, duration \in ConsentDurations :
        /\ store_ops < MaxStores
        /\ consents' = MapPut(consents, consent_key(scope, capability),
                              StoredConsent(scope, capability, granted, clock,
                                            duration))
        /\ file' = save(consents')
        /\ answer' = NoAnswer
        /\ store_ops' = store_ops + 1
        /\ UNCHANGED clock
        /\ UNCHANGED <<reg_vars, exec_vars, chan_vars>>

\* ConsentStore::check
Check ==
    \E scope \in StoreScopes, capability \in StoreCapabilities :
        /\ answer' = [scope |-> scope, capability |-> capability,
                      result |-> check(consents, scope, capability, clock,
                                       overflow_checks)]
        /\ UNCHANGED <<consents, file, clock, store_ops>>
        /\ UNCHANGED <<reg_vars, exec_vars, chan_vars>>

\* ConsentStore::revoke
RevokeConsent ==
    \E scope \in StoreScopes, capability \in StoreCapabilities :
        /\ consents' = remove_key(consents, consent_key(scope, capability))
        /\ file' = save(consents')
        /\ answer' = NoAnswer
        /\ UNCHANGED <<clock, store_ops>>
        /\ UNCHANGED <<reg_vars, exec_vars, chan_vars>>

\* ConsentStore::revoke_all
RevokeAll ==
    \E scope \in StoreScopes :
        /\ consents' = remove_scope(consents, scope)
        /\ file' = save(consents')
        /\ answer' = NoAnswer
        /\ UNCHANGED <<clock, store_ops>>
        /\ UNCHANGED <<reg_vars, exec_vars, chan_vars>>

\* ConsentStore::clear
Clear ==
    /\ consents' = EmptyMap
    /\ file' = save(consents')
    /\ answer' = NoAnswer
    /\ UNCHANGED <<clock, store_ops>>
    /\ UNCHANGED <<reg_vars, exec_vars, chan_vars>>

\* ConsentStore::save called by the program
Save ==
    /\ file' = save(consents)
    /\ answer' = NoAnswer
    /\ UNCHANGED <<consents, clock, store_ops>>
    /\ UNCHANGED <<reg_vars, exec_vars, chan_vars>>

\* a later session: ConsentStore::new on the same path, then load, as in
\* test_save_and_load
Open ==
    /\ consents' = load(ConsentStore_new, file)
    /\ answer' = NoAnswer
    /\ UNCHANGED <<file, clock, store_ops>>
    /\ UNCHANGED <<reg_vars, exec_vars, chan_vars>>

\* time passes
TimePasses ==
    \E t \in ClockReadings :
        /\ t > clock
        /\ clock' = t
        /\ answer' = NoAnswer
        /\ UNCHANGED <<consents, file, store_ops>>
        /\ UNCHANGED <<reg_vars, exec_vars, chan_vars>>

\* the system clock is set back: SystemTime is not monotonic
ClockSetBack ==
    \E t \in ClockReadings :
        /\ t < clock
        /\ clock' = t
        /\ answer' = NoAnswer
        /\ UNCHANGED <<consents, file, store_ops>>
        /\ UNCHANGED <<reg_vars, exec_vars, chan_vars>>

ConsentNext ==
    \/ Store
    \/ Check
    \/ RevokeConsent
    \/ RevokeAll
    \/ Clear
    \/ Save
    \/ Open
    \/ TimePasses
    \/ ClockSetBack

SpecConsent == ConsentInit /\ [][ConsentNext]_vars

(***************************************************************************)
(* Channels (interpreter/value.rs ChannelHandle, stdlib/chan.rs).  Every   *)
(* clone of a handle shares the mpsc channel, the receiver mutex and the   *)
(* closed flag (#[derive(Clone)] over Sender, Arc<Mutex<Receiver>>,        *)
(* Arc<Mutex<bool>>).                                                      *)
(***************************************************************************)
MaxSends == 3      \* send calls that reach the mpsc sender in one behaviour
MaxCapacity == 2   \* largest capacity handed to make_chan

\* the tasks that hold a clone of the handle
Tasks == {1, 2}

Idle == [pc |-> "idle", value |-> 0]

NoCall == [task |-> 0, op |-> "-", value |-> Unit]

Returns(t, op, value) == [task |-> t, op |-> op, value |-> value]

\* ChannelHandle::send without its closed test
send_unguarded(flag) == FALSE

\* the closed test that opens ChannelHandle::send
send_refused(flag) == flag

\* the closed test that opens ChannelHandle::recv
recv_refused(flag) == flag

\* the value a new send call carries: sends are numbered in the order they
\* pass the closed test
next_value == Len(sent) + Cardinality({t \in Tasks : tasks[t].pc = "send"}) + 1

(***************************************************************************)
(* SpecChannel: make_chan, then the tasks call send, recv, try_recv,       *)
(* recv_timeout, close and is_closed on their clones, interleaved at the   *)
(* points where a call takes a lock or touches the mpsc channel.           *)
(***************************************************************************)
ChanInit ==
    /\ RegistryIdle
    /\ ExecIdle
    /\ StoreIdle
    \* make_chan() is ChannelHandle::new(), make_chan(n) is buffered(n);
    \* both build the channel with mpsc::channel()
    /\ capacity \in 0..MaxCapacity
    /\ queue = <<>>
    /\ closed = FALSE
    /\ receiver = 0
    /\ tasks = [t \in Tasks |-> Idle]
    /\ sent = <<>>
    /\ received = <<>>
    /\ returned = NoCall

\* stdlib send, up to the closed test of ChannelHandle::send
Send(t) ==
    /\ tasks[t].pc = "idle"
    /\ next_value <= MaxSends
    /\ IF send_refused(closed)
       THEN /\ returned' = Returns(t, "send", Oops_("cannot send on closed channel"))
            /\ UNCHANGED tasks
       ELSE /\ tasks' = [tasks EXCEPT ![t] = [pc |-> "send", value |-> next_value]]
            /\ UNCHANGED returned
    /\ UNCHANGED <<capacity, queue, closed, receiver, sent, received>>
    /\ UNCHANGED <<reg_vars, exec_vars, store_vars>>

\* self.sender.send(value) on the unbounded mpsc channel; the receiver lives
\* as long as a handle does, so the send succeeds and stdlib send gives true
SenderSend(t) ==
    /\ tasks[t].pc = "send"
    /\ queue' = Append(queue, Int_(tasks[t].value))
    /\ sent' = Append(sent, Int_(tasks[t].value))
    /\ tasks' = [tasks EXCEPT ![t] = Idle]
    /\ returned' = Returns(t, "send", Bool_(TRUE))
    /\ UNCHANGED <<capacity, closed, receiver, received>>
    /\ UNCHANGED <<reg_vars, exec_vars, store_vars>>

\* stdlib recv, recv_timeout or try_recv (op), up to the closed test of the
\* ChannelHandle method; closed gives Err from recv and Ok(None) from the
\* other two
BeginReceive(t, op) ==
    /\ tasks[t].pc = "idle"
    /\ IF recv_refused(closed)
       THEN /\ returned' =
                  Returns(t, op,
                      CASE op = "recv" -> Oops_("cannot receive on closed channel")
                        [] op = "try_recv" -> Oops_("channel empty")
                        [] op = "recv_timeout" -> Oops_("timeout"))
            /\ UNCHANGED tasks
       ELSE /\ tasks' = [tasks EXCEPT ![t] = [pc |-> op, value |-> 0]]
            /\ UNCHANGED returned
    /\ UNCHANGED <<capacity, queue, closed, receiver, sent, received>>
    /\ UNCHANGED <<reg_vars, exec_vars, store_vars>>

Recv(t) == BeginReceive(t, "recv")

TryRecv(t) == BeginReceive(t, "try_recv")

RecvTimeout(t) == BeginReceive(t, "recv_timeout")

\* self.receiver.lock()
LockReceiver(t) ==
    /\ tasks[t].pc \in {"recv", "try_recv", "recv_timeout"}
    /\ tasks[t].value = 0
    /\ receiver = 0
    /\ receiver' = t
    /\ tasks' = [tasks EXCEPT ![t].value = 1]
    /\ UNCHANGED <<capacity, queue, closed, sent, received, returned>>
    /\ UNCHANGED <<reg_vars, exec_vars, store_vars>>

\* receiver.recv(), receiver.try_recv() or receiver.recv_timeout(..) hands
\* over the oldest value; the guard drops the receiver lock
TakeValue(t) ==
    /\ receiver = t
    /\ queue # <<>>
    /\ queue' = Tail(queue)
    /\ received' = Append(received, Head(queue))
    /\ returned' = Returns(t, tasks[t].pc, Okay_(Head(queue)))
    /\ receiver' = 0
    /\ tasks' = [tasks EXCEPT ![t] = Idle]
    /\ UNCHANGED <<capacity, closed, sent>>
    /\ UNCHANGED <<reg_vars, exec_vars, store_vars>>

\* receiver.try_recv() finds the channel empty, or receiver.recv_timeout(..)
\* runs out of time on the empty channel; receiver.recv() keeps waiting
GiveUp(t) ==
    /\ receiver = t
    /\ tasks[t].pc \in {"try_recv", "recv_timeout"}
    /\ queue = <<>>
    /\ returned' = Returns(t, tasks[t].pc,
                           IF tasks[t].pc = "try_recv" THEN Oops_("channel empty")
                           ELSE Oops_("timeout"))
    /\ receiver' = 0
    /\ tasks' = [tasks EXCEPT ![t] = Idle]
    /\ UNCHANGED <<capacity, queue, closed, sent, received>>
    /\ UNCHANGED <<reg_vars, exec_vars, store_vars>>

\* stdlib close, ChannelHandle::close
Close(t) ==
    /\ tasks[t].pc = "idle"
    /\ closed' = TRUE
    /\ returned' = Returns(t, "close", Bool_(TRUE))
    /\ UNCHANGED <<capacity, queue, receiver, tasks, sent, received>>
    /\ UNCHANGED <<reg_vars, exec_vars, store_vars>>

\* stdlib is_closed, ChannelHandle::is_closed
IsClosed(t) ==
    /\ tasks[t].pc = "idle"
    /\ returned' = Returns(t, "is_closed", Bool_(closed))
    /\ UNCHANGED <<capacity, queue, closed, receiver, tasks, sent, received>>
    /\ UNCHANGED <<reg_vars, exec_vars, store_vars>>

ChanNext ==
    \E t \in Tasks :
        \/ Send(t)
        \/ SenderSend(t)
        \/ Recv(t)
        \/ TryRecv(t)
        \/ RecvTimeout(t)
        \/ LockReceiver(t)
        \/ TakeValue(t)
        \/ GiveUp(t)
        \/ Close(t)
        \/ IsClosed(t)

SpecChannel == ChanInit /\ [][ChanNext]_vars

(***************************************************************************)
(* Claims about program execution, stated over SpecExec.                   *)
(***************************************************************************)
\* line was printed in out
Printed(out, line) == \E i \in 1..Len(out) : out[i] = line

\* the user granted permission: the answer the interpreter recorded for it
\* when it asked; a permission nobody asked about is undecided
Granted(permission) ==
    /\ permission \in DOMAIN interp.consent_cache
    /\ interp.consent_cache[permission]

\* C1: the body of a consent block runs only when its permission has been
\* granted, under the interpreter and as compiled bytecode on the VM: whenever
\* the statement inside a consent block has executed (its marker was
\* printed), the user had granted the block's permission.
C1_ConsentBodyOnlyWhenGranted ==
    \A permission \in Permissions :
        /\ Printed(interp.out, ConsentMarker(permission)) => Granted(permission)
        /\ Printed(vm.out, ConsentMarker(permission)) => Granted(permission)

\* C7: for every program that terminates without side effects, the value
\* main returns under the interpreter equals the value the VM returns after
\* the program is compiled and optimized.
C7_InterpreterAndVMAgree ==
    (Done /\ interp.tag = "ok" /\ interp.out = <<>> /\ vm.out = <<>>)
        => (vm.status = "done" /\ vm.result = interp.v)

\* C8: executing a compiled program after optimize yields the same printed
\* outputs and the same final result (returned value or error) as executing
\* the bytecode as compiled.
C8_OptimizedRunMatchesRaw ==
    Done => /\ vm.out = raw.out
            /\ vm.status = raw.status
            /\ raw.status = "done" => vm.result = raw.result
            /\ raw.status = "error" => vm.message = raw.message

\* C9: running a compiled program on the VM never crashes the host process:
\* every failing step ends the run with a VMError, never with a panic.
C9_VMNeverPanics == vm.status # "panic"

\* C10: in every reachable VM state the value stack holds at most
\* max_stack_size values.
C10_StackWithinLimit == Len(vm.stack) <= max_stack_size

\* the frame on top of the call stack of machine m
top_frame(m) == m.call_stack[Len(m.call_stack)]

\* a step of the VM that pops one frame, of a call that found its arguments
\* on the stack
FramePopped ==
    /\ Running
    /\ Len(vm.call_stack) > 0
    /\ ~wrapped(top_frame(vm).base_ptr)
    /\ vm'.status = "running"
    /\ vm'.call_stack = drop(vm.call_stack, 1)

\* the run is over: Finish takes the top of the stack as the program result
LastFramePopped == Running /\ Len(vm.call_stack) = 0 /\ Len(vm.stack) > 0

\* C11: when a called function returns (Return, the end of its code, or
\* TryUnwrap meeting an Oops and then the end of the code), the VM pops that
\* function's frame and leaves the caller's stack as it was below the call's
\* arguments with the single return value pushed on top; once the last frame
\* is popped, the run ends with that value as the program result.
C11_ReturnRestoresCallerStack ==
    [][ /\ FramePopped =>
            (/\ Len(vm'.stack) = top_frame(vm).base_ptr + 1
             /\ SubSeq(vm'.stack, 1, top_frame(vm).base_ptr)
                    = SubSeq(vm.stack, 1, top_frame(vm).base_ptr))
        /\ LastFramePopped =>
            (vm'.status = "done" /\ vm'.result = peek(vm))
      ]_vars

\* the source program is  to main() { give back a / 0; }  or  a % 0  for an
\* integer a
DividesByZero ==
    /\ source > Len(Catalogue)
    /\ source <= Len(Catalogue) + NumBinary
    /\ LET e == BinaryExpr(source - Len(Catalogue) - 1) IN
       /\ e.op \in {"Div", "Mod"}
       /\ e.left.v.t = "Int"
       /\ e.right.v = Int_(0)

\* C12: in the interpreter and in the VM, a / b and a % b with b zero produce
\* a division-by-zero error, never a numeric result and never a crash.
C12_DivisionByZeroIsAnError ==
    DividesByZero =>
        /\ interp.tag # "none" =>
               (interp.tag = "err" /\ interp.err = "Division by zero")
        /\ (phase \in {"running_raw", "running_opt"} /\ vm.status # "running") =>
               (vm.status = "error" /\ vm.message = "Division by zero")

\* the programs of the catalogue whose only error is raised inside an attempt
\* block that  give back 2;  follows: directly in the body (3), in a function
\* the body calls (17)
RaisesInsideAttempt == source \in {3, 17}

VMFinished == phase \in {"running_raw", "running_opt"} /\ vm.status # "running"

\* C13: an error raised during the body of an attempt block, also inside a
\* function the body calls, does not leave the block: the statement after the
\* block runs, in the interpreter and on the VM
C13_AttemptBlockContainsErrors ==
    RaisesInsideAttempt =>
        /\ interp.tag # "none" => (interp.tag = "ok" /\ interp.v = I2.v)
        /\ VMFinished => (vm.status = "done" /\ vm.result = I2.v)

\* C14: every scope the interpreter pushes on entering a block or a call is
\* popped on leaving it, also when an error leaves it that an attempt block
\* catches: a run that ends normally ends with the one scope it began with
C14_ScopesBalanced == interp.tag = "ok" => interp.scopes = 1

\* the programs of the catalogue that declare x = 1, declare x = 2 inside the
\* taken branch of a conditional (18) or the body of a repeat loop (19), and
\* give back x after it
RedeclaresInBranchOrLoop == source \in {18, 19}

\* C15: in the interpreter a variable declared inside the taken branch of a
\* conditional or inside the body of a repeat loop does not replace a
\* same-named variable of the enclosing scope
C15_BranchAndLoopBodyScoped ==
    (RedeclaresInBranchOrLoop /\ interp.tag # "none") =>
        (interp.tag = "ok" /\ interp.v = I1.v)

\* the programs of the catalogue that count the runs of a loop body in x and
\* give back x: one loop of 2 (6), a loop of 2 inside a loop of 2 (20)
CountsIterations == source \in {6, 20}

Iterations == IF source = 6 THEN 2 ELSE 4

\* C16: a repeat loop of count n > 0 runs its body exactly n times, in the
\* interpreter and in compiled bytecode, also when loops are nested
C16_LoopRunsCountTimes ==
    CountsIterations =>
        /\ interp.tag # "none" => (interp.tag = "ok" /\ interp.v = Int_(Iterations))
        /\ VMFinished => (vm.status = "done" /\ vm.result = Int_(Iterations))

\* the program of the catalogue that declares y = 2, calls inside an attempt
\* block a closure that raises, and gives back y after the block
ClosureRaisesInAttempt == source = 21

\* C17: after a closure call that raises an error an enclosing attempt block
\* catches, the interpreter's environment is the caller's as it was before the
\* call: the caller's y is still bound to 2
C17_ClosureCallRestoresEnvironment ==
    (ClosureRaisesInAttempt /\ interp.tag # "none") =>
        (interp.tag = "ok" /\ interp.v = I2.v)

\* the programs of the catalogue that bind x = 1 and give back x after a
\* closure assigned to its captured x (22: and raised, 23: and returned), and
\* the one that gives back what a closure reads of x after x became 2 (24)
ClosureWorksOnCopy == source \in {22, 23, 24}

\* C18: a closure works on a copy of the bindings its lambda saw: what its
\* body assigns or declares never changes a variable of the caller, and it
\* does not see assignments made after the lambda was evaluated
C18_ClosureIsolation ==
    (ClosureWorksOnCopy /\ interp.tag # "none") =>
        (interp.tag = "ok" /\ interp.v = I1.v)

\* the programs of the catalogue that give back  false and e  (25) and
\* true or e  (26), for an e that divides by zero
DecidedByLeftOperand == source \in {25, 26}

\* C19: and / or are short-circuit: with a falsy left operand of and, or a
\* truthy left operand of or, the right operand is not evaluated and its
\* error does not occur, in the interpreter and on the VM
C19_AndOrShortCircuit ==
    DecidedByLeftOperand =>
        /\ interp.tag # "none" => (interp.tag = "ok" /\ interp.v = Bool_(source = 26))
        /\ VMFinished => (vm.status = "done" /\ vm.result = Bool_(source = 26))

\* the programs of the catalogue that decide: the second of three arms is
\* the first that matches (27), no arm matches (28), the arm Okay(n) matches
\* before the wildcard (29), an arm binds x where the function has its own
\* x = 1 and gives it back after the statement (30).  Each is to give back 1
Decides == source \in 27..30

\* C20: a decide statement runs the body of exactly the first arm whose
\* pattern matches and nothing when none matches, and what an arm's pattern
\* binds is visible in that arm's body only, in the interpreter and in the
\* bytecode on the VM
C20_DecideFirstMatchingArm ==
    Decides =>
        /\ interp.tag # "none" => (interp.tag = "ok" /\ interp.v = I1.v)
        /\ VMFinished => (vm.status = "done" /\ vm.result = I1.v)

\* the programs of the catalogue that give back unwrapOr(v, 2), for v an
\* Okay(1) (31), an Oops (32) and the plain value 0 (33)
UnwrapsOr == source \in 31..33

\* C21: unwrapOr(v, d) is the inner value of an Okay v and d for every other v
C21_UnwrapOrDefault ==
    (UnwrapsOr /\ interp.tag # "none") =>
        (interp.tag = "ok" /\ interp.v = IF source = 31 THEN I1.v ELSE I2.v)

\* func is a fixed point of the pass that made it from before
SameCode(func, before) ==
    /\ func.code = before.code
    /\ func.constants = before.constants

\* C22: each optimizer pass is idempotent: on every function of a compiled
\* program, applying the pass to its own output changes neither the code nor
\* the constant pool
C22_OptimizerPassesIdempotent ==
    \A j \in 1..Len(program.functions) :
        /\ SameCode(fold_constants(fold_constants(program.functions[j])),
                    fold_constants(program.functions[j]))
        /\ SameCode(peephole_optimize(peephole_optimize(program.functions[j])),
                    peephole_optimize(program.functions[j]))
        /\ SameCode(eliminate_dead_code(eliminate_dead_code(program.functions[j])),
                    eliminate_dead_code(program.functions[j]))

\* fold_constants replaces the three instructions of func from i (from 0)
Folded(func, i) == fold_at(func, i).code # func.code

\* the constant the replacement loads
FoldedConstant(func, i) ==
    fold_at(func, i).constants[fold_at(func, i).code[i + 1].a + 1]

\* the three instructions of func from i as the main function of a program
Isolated(func, i) ==
    add_function(CompiledProgram_new,
                 [func EXCEPT !.name = "main", !.arity = 0, !.locals = 0,
                              !.code = SubSeq(@, i + 1, i + 3)])

\* the VM after the three instructions of prog
ThreeSteps(prog) ==
    execute_instruction(
        execute_instruction(
            execute_instruction(vm_run_start(prog, overflow_checks),
                                prog, overflow_checks),
            prog, overflow_checks),
        prog, overflow_checks)

\* C23: where constant folding replaces Const a; Const b; Op by one constant,
\* the constant is the value the VM leaves on the stack when it executes the
\* three instructions in isolation
C23_FoldedConstantIsVMValue ==
    \A j \in 1..Len(program.functions) :
        \A i \in 0..(Len(program.functions[j].code) - 3) :
            Folded(program.functions[j], i) =>
                /\ ThreeSteps(Isolated(program.functions[j], i)).status = "running"
                /\ ThreeSteps(Isolated(program.functions[j], i)).stack
                       = <<FoldedConstant(program.functions[j], i)>>

\* the optimizer has run on a program in which it folded a constant
C23_Witness ==
    /\ phase = "optimized"
    /\ \E j \in 1..Len(compile(Program(source)).functions) :
           Folded(compile(Program(source)).functions[j], 0)

\* the function_indices the first pass of BytecodeCompiler::compile builds
FunctionIndices ==
    register_functions(BytecodeCompiler_new, Program(source), 1).function_indices

\* C29: for every top-level function name f, the index the compiler emits
\* in MakeClosure for a call to f is the position, in the function table of
\* the compiled program, of the function compiled from f, whatever functions,
\* workers and top-level consent blocks the source holds and in what order.
C29_FunctionIndexIsTablePosition ==
    phase = "compiled" =>
        \A f \in DOMAIN FunctionIndices :
            /\ FunctionIndices[f] < Len(program.functions)
            /\ program.functions[FunctionIndices[f] + 1].name = f

\* the main function of the source program
MainDef == CHOOSE item \in {Program(source)[i] : i \in 1..Len(Program(source))} :
               item.k = "Function" /\ item.name = "main"

\* length of the code of main after its first k statements
OffsetAfter(k) ==
    Len(compile_statements(
            [register_functions(BytecodeCompiler_new, Program(source), 1) EXCEPT
                 !.current_function = CompiledFunction_new("main", 0),
                 !.locals = EmptyMap],
            SubSeq(MainDef.body, 1, k), 1).current_function.code)

\* the VM is in the frame of main, on the unoptimized bytecode, before the
\* first statement of the body of main or after one that is not a give back
BetweenStatements ==
    /\ phase = "running_raw"
    /\ vm.status = "running"
    /\ Len(vm.call_stack) = 1
    /\ \E k \in 0..Len(MainDef.body) :
           /\ k > 0 => MainDef.body[k].k # "Return"
           /\ vm.call_stack[1].ip = OffsetAfter(k)

\* C30: the bytecode of a statement that completes without returning leaves
\* the VM value stack at the height it had before the statement: between any
\* two statements of main the stack holds the local slots of main, as it did
\* before the first statement, and nothing else.
C30_StatementsKeepStackHeight ==
    BetweenStatements =>
        Len(vm.stack) = program.functions[program.entry + 1].locals

(***************************************************************************)
(* Claims about the consent store (SpecConsent).                           *)
(***************************************************************************)
\* the record check is asked about is one whose decision is still remembered
Remembered(store, scope, capability, now_secs) ==
    /\ consent_key(scope, capability) \in DOMAIN store
    /\ store[consent_key(scope, capability)].remember # "Once"
    /\ store[consent_key(scope, capability)].remember \in {"Day", "Week"}
           => now_secs - store[consent_key(scope, capability)].timestamp
                  <= to_seconds(store[consent_key(scope, capability)].remember).secs

Decision(consent) == IF consent.granted THEN "Some(true)" ELSE "Some(false)"

\* C24: ConsentStore.check returns the stored decision exactly when a record
\* for (scope, capability) exists, its duration is not Once and, for a Day or
\* Week record, no more than that duration has passed since its timestamp;
\* in every other case it returns unknown, whatever timestamp the record
\* carries.
C24_CheckRespectsDuration ==
    answer.result # "-" =>
        answer.result =
            IF Remembered(consents, answer.scope, answer.capability, clock)
            THEN Decision(consents[consent_key(answer.scope, answer.capability)])
            ELSE "None"

\* the file is what save writes for the store
Saved == file = save(consents)

\* C25: saving a ConsentStore and loading the file into a fresh store
\* preserves every record: the reloaded store holds the same decision,
\* timestamp and duration for every (scope, capability) that was stored.
C25_SaveLoadRoundTrip ==
    [][Open /\ Saved =>
          \A key \in DOMAIN consents :
              key \in DOMAIN consents' /\ consents'[key] = consents[key]]_vars

\* C26: a decision stored with duration Session is remembered for the
\* current session only: once a new ConsentStore has loaded the saved file,
\* check returns unknown for that (scope, capability).
C26_SessionConsentEndsWithSession ==
    [][Open =>
          \A scope \in StoreScopes, capability \in StoreCapabilities :
              (/\ consent_key(scope, capability) \in DOMAIN consents
               /\ consents[consent_key(scope, capability)].remember = "Session")
                  => check(consents', scope, capability, clock', overflow_checks')
                         = "None"]_vars

(***************************************************************************)
(* Claims about channels (SpecChannel).                                    *)
(***************************************************************************)
IsOops(call) == call.value.t = "Oops"

\* C27: close is monotonic and visible through every clone of the handle:
\* once close has been called the flag stays set and is_closed returns true
\* to every task, a send begun afterwards returns an Oops at once and never
\* enqueues its value, and a receive begun on the closed channel with no
\* undelivered value returns an Oops.
C27_CloseMonotonicAndVisible ==
    [][/\ closed => closed'
       /\ \A t \in Tasks :
              /\ closed /\ IsClosed(t) => returned' = Returns(t, "is_closed", Bool_(TRUE))
              /\ closed /\ Send(t) =>
                     /\ returned'.task = t /\ returned'.op = "send"
                     /\ IsOops(returned')
                     /\ tasks'[t].pc = "idle"
                     /\ queue' = queue
              /\ closed /\ queue = <<>> /\ (Recv(t) \/ TryRecv(t) \/ RecvTimeout(t)) =>
                     /\ returned'.task = t
                     /\ IsOops(returned')
                     /\ tasks'[t].pc = "idle"]_vars

\* a task was refused a send after values had gone through the channel and
\* the channel was closed
C27_Witness ==
    /\ closed
    /\ sent # <<>>
    /\ returned.op = "send"
    /\ returned.value = Oops_("cannot send on closed channel")

\* C28: a channel is a bounded FIFO queue: values are received in the order
\* they were sent, each at most once, and a channel made with capacity n
\* never holds more than n sent-but-unreceived values.
C28_BoundedFifo ==
    /\ sent = received \o queue
    /\ capacity > 0 => Len(queue) <= capacity

=============================================================================
